---- MODULE Spec2Model ----
(***************************************************************************)
(* Verification model of the legal document analyzer's question-answering  *)
(* and summarization core: the result cache (backend/app/utils/cache.py),  *)
(* the cached answer_question entry point with its chunk retrieval         *)
(* (backend/app/nlp/qa.py), and the QA ensemble, the answer                *)
(* post-processing and the summarizer of EnhancedModelManager              *)
(* (backend/app/utils/enhanced_models.py), together with the request      *)
(* threads that share the cache and the LegalDomainFeatures instance       *)
(* (backend/app/utils/legal_domain_features.py, backend/app/routes).       *)
(*                                                                         *)
(* Texts are strings, read as sequences of characters: concatenation,       *)
(* stripping and length are computed as Python computes them.              *)
(***************************************************************************)
EXTENDS Integers, Sequences, FiniteSets, TLC

(***************************************************************************)
(* Bounds of the model.                                                    *)
(***************************************************************************)
\* largest max_size a QACache is constructed with
MaxMaxSize == 2
\* number of set operations / wrapped-function invocations explored
MaxOps == 4

(***************************************************************************)
(* Input texts.                                                            *)
(***************************************************************************)
\* Python's None; cached values are records, so None is one too
None == [none |-> TRUE]

Q1 == "q"
Q2 == "q:aaaaaaaaaa"
CEmpty == ""
CShort == "b"
CPadded == " aaaaaaaa   "
CLong == "aaaaaaaaaa:b"

\* the (question, context) pairs the operations are called with; the first two
\* are distinct pairs with the same concatenation "q:aaaaaaaaaa:b"
Pairs == {<<Q1, CLong>>, <<Q2, CShort>>, <<Q1, CEmpty>>, <<Q1, CPadded>>}

(***************************************************************************)
(* QACache (cache.py).  The dict self._cache is a sequence of entries in   *)
(* insertion order, which is the iteration order of a Python dict.         *)
(***************************************************************************)
\* hashlib.md5(...).hexdigest(): the digest is represented by the content it
\* was computed from; MD5 has no collision among the model's short texts.
Md5Hex(content) == "md5(" \o content \o ")"

\* QACache._generate_key: f"{question}:{context}" hashed
_generate_key(question, context) == Md5Hex(question \o ":" \o context)

DictKeys(d) == {d[i].key : i \in 1..Len(d)}

DictHas(d, key) == \E i \in 1..Len(d) : d[i].key = key

\* dict.get(key): the stored value, None when the key is absent
DictGet(d, key) ==
    IF DictHas(d, key)
    THEN (CHOOSE e \in {d[i] : i \in 1..Len(d)} : e.key = key).val
    ELSE None

\* a dict whose eviction drops the newest key (popitem) instead of the oldest
DictPopLast(d) == SubSeq(d, 1, Len(d) - 1)

\* d.pop(next(iter(d))): drop the first key in insertion order
DictPopFirst(d) == Tail(d)

\* d[key] = val: an existing key keeps its position, a new key goes last
DictAssign(d, key, val) ==
    IF DictHas(d, key)
    THEN [i \in 1..Len(d) |-> IF d[i].key = key THEN [key |-> key, val |-> val] ELSE d[i]]
    ELSE Append(d, [key |-> key, val |-> val])

\* an eviction test that lets the dict grow one entry past max_size
CacheIsFullStrict(d, size) == Len(d) > size

\* the eviction test of QACache.set
CacheIsFull(d, size) == Len(d) >= size

\* QACache.get
CacheGet(d, question, context) == DictGet(d, _generate_key(question, context))

\* the dict after the eviction step of QACache.set
CacheEvict(d, size) == IF CacheIsFull(d, size) THEN DictPopFirst(d) ELSE d

\* a set that evicts after the assignment, so that it can drop what it stored
CacheSetEvictAfter(d, size, question, context, answer) ==
    CacheEvict(DictAssign(d, _generate_key(question, context), answer), size)

\* QACache.set
CacheSet(d, size, question, context, answer) ==
    DictAssign(CacheEvict(d, size), _generate_key(question, context), answer)

\* a clear that leaves the entries in place
CacheClearKeep(d) == d

\* QACache.clear
CacheClear(d) == <<>>

(***************************************************************************)
(* answer_question (qa.py) as wrapped by cache_qa_result (cache.py).       *)
(***************************************************************************)
\* the whitespace characters of str.strip() and of the regex class \s
Whitespace == {" ", "\t", "\n", "\r"}

\* str.strip(): leading and trailing whitespace removed
RECURSIVE LStrip(_)
LStrip(s) == IF s # "" /\ Head(s) \in Whitespace THEN LStrip(Tail(s)) ELSE s

RECURSIVE RStrip(_)
RStrip(s) ==
    IF s # "" /\ SubSeq(s, Len(s), Len(s)) \in Whitespace
    THEN RStrip(SubSeq(s, 1, Len(s) - 1))
    ELSE s

Strip(s) == RStrip(LStrip(s))

\* minimum stripped context length of answer_question
MinContextLen == 10

\* qa.py line 60: not context or len(context.strip()) < 10
ContextTooShort(context) == context = "" \/ Len(Strip(context)) < MinContextLen

\* score given to a non-empty T5 answer, in tenths
DefaultScoreTenths == 9

\* the dict returned for a too short context
EmptyInputResult ==
    [answer |-> "The provided context is too short to generate a meaningful answer.",
     score |-> 0, start |-> 0, end |-> 0]

\* the dict built from a decoded model answer (qa.py lines 86-97)
ModelResult(answer) ==
    [answer |-> answer, score |-> IF answer # "" THEN DefaultScoreTenths ELSE 0,
     start |-> 0, end |-> 0]

\* what qa_tokenizer.decode can yield ("" stands for any blank answer)
ModelOutputs == {"a1", "a2", ""}

\* the answers stored by direct calls of QACache.set
Answers == {ModelResult("a1"), ModelResult("a2")}

\* an outcome of the wrapped function: it raises or returns a result dict
Raise(modelInvoked) == [raised |-> TRUE, result |-> None, modelInvoked |-> modelInvoked]
Return(r, modelInvoked) == [raised |-> FALSE, result |-> r, modelInvoked |-> modelInvoked]

\* the outcomes of the body of answer_question (qa.py lines 55-101): the model
\* check comes first, then the short-context check, then retrieval and
\* generation, any of which may raise
AnswerQuestionOutcomes(model, question, context) ==
    IF model = None
    THEN {Raise(FALSE)}
    ELSE IF ContextTooShort(context)
         THEN {Return(EmptyInputResult, FALSE)}
         ELSE {Raise(FALSE), Raise(TRUE)} \cup {Return(ModelResult(a), TRUE) : a \in ModelOutputs}

\* cache_qa_result.wrapper line 37: the cached result is used when it is not None
WrapperHit(cached) == cached # None

\* a wrapper that never stores the result it computed
CacheAfterCallNoStore(d, size, question, context, out) == d

\* a wrapper that stores the outcome of a call that raised as well
CacheAfterCallAlways(d, size, question, context, out) ==
    CacheSet(d, size, question, context, out.result)

\* cache_qa_result.wrapper lines 41-42: a returned result is stored, a raise
\* leaves the wrapper before qa_cache.set
CacheAfterCall(d, size, question, context, out) ==
    IF out.raised THEN d ELSE CacheSet(d, size, question, context, out.result)

(***************************************************************************)
(* Sentence splitting (EnhancedModelManager._split_into_sentences).        *)
(***************************************************************************)
Char(s, i) == SubSeq(s, i, i)

UpperCase ==
    {"A", "B", "C", "D", "E", "F", "G", "H", "I", "J", "K", "L", "M",
     "N", "O", "P", "Q", "R", "S", "T", "U", "V", "W", "X", "Y", "Z"}

SentenceEnd == {".", "!", "?"}

RECURSIVE SkipSpace(_, _)
\* the first position at or after i that holds no whitespace
SkipSpace(s, i) == IF i <= Len(s) /\ Char(s, i) \in Whitespace THEN SkipSpace(s, i + 1) ELSE i

\* the matches of [.!?] \s{least,} (?=[A-Z]) in s, each given by the position of
\* its punctuation mark
BreaksOf(s, least) ==
    {i \in 1..Len(s) :
        /\ Char(s, i) \in SentenceEnd
        /\ LET j == SkipSpace(s, i + 1)
           IN j - (i + 1) >= least /\ j <= Len(s) /\ Char(s, j) \in UpperCase}

RECURSIVE SortedRange(_, _, _)
\* the elements of S within lo..hi in increasing order, built by halves
SortedRange(S, lo, hi) ==
    IF lo > hi THEN <<>>
    ELSE IF lo = hi THEN (IF lo \in S THEN <<lo>> ELSE <<>>)
    ELSE SortedRange(S, lo, (lo + hi) \div 2) \o SortedRange(S, (lo + hi) \div 2 + 1, hi)

\* s from position start on, cut after each break, the whitespace of the break dropped
PiecesFrom(s, breaks, start) ==
    LET \* the pieces for the breaks in increasing order: each starts after the
        \* whitespace of the break before it, the last one runs to the end of s
        PiecesAt(cuts) ==
            [k \in 1..(Len(cuts) + 1) |->
                SubSeq(s, IF k = 1 THEN start ELSE SkipSpace(s, cuts[k - 1] + 1),
                          IF k <= Len(cuts) THEN cuts[k] ELSE Len(s))]
    IN PiecesAt(SortedRange(breaks, start, Len(s)))

RECURSIVE Join(_, _)
\* sep.join(parts), built by halves
Join(parts, sep) ==
    IF parts = <<>> THEN ""
    ELSE IF Len(parts) = 1 THEN parts[1]
    ELSE Join(SubSeq(parts, 1, Len(parts) \div 2), sep) \o sep
             \o Join(SubSeq(parts, Len(parts) \div 2 + 1, Len(parts)), sep)

\* re.sub(r'([.!?])\s*([A-Z])', r'\1 \2', text)
SpaceSentences(text) == Join(PiecesFrom(text, BreaksOf(text, 0), 1), " ")

\* re.split(r'(?<=[.!?])\s+(?=[A-Z])', text)
SplitSentences(text) == PiecesFrom(text, BreaksOf(text, 1), 1)

\* the length a sentence must exceed to be kept
MinSentenceLen == 10

\* str.startswith(('Sec', 'Art', 'Clause', 'Para'))
StartsWithAbbreviation(s) ==
    \E prefix \in {"Sec", "Art", "Clause", "Para"} :
        Len(s) >= Len(prefix) /\ SubSeq(s, 1, Len(prefix)) = prefix

RECURSIVE CleanSentences(_, _)
\* the clean-up loop: strip, drop short fragments, merge split abbreviations; the
\* loop over the sentences is unfolded by halves
CleanSentences(sentences, cleaned) ==
    LET \* one pass of the loop body
        Cleaned(sentence) ==
            IF sentence # "" /\ Len(sentence) > MinSentenceLen
            THEN IF StartsWithAbbreviation(sentence) /\ cleaned # <<>>
                 THEN [cleaned EXCEPT ![Len(cleaned)] = @ \o " " \o sentence]
                 ELSE Append(cleaned, sentence)
            ELSE cleaned
    IN IF sentences = <<>> THEN cleaned
       ELSE IF Len(sentences) = 1 THEN Cleaned(Strip(sentences[1]))
       ELSE CHOOSE result \in
                {CleanSentences(SubSeq(sentences, Len(sentences) \div 2 + 1, Len(sentences)),
                                first_half) :
                     first_half \in {CleanSentences(SubSeq(sentences, 1, Len(sentences) \div 2),
                                                    cleaned)}} : TRUE

_split_into_sentences(text) ==
    LET \* cleaned_sentences if cleaned_sentences else [text]
        OrWholeText(cleaned, spaced) == IF cleaned # <<>> THEN cleaned ELSE <<spaced>>
        SentencesOfSpaced(spaced) ==
            OrWholeText(CleanSentences(SplitSentences(spaced), <<>>), spaced)
    IN SentencesOfSpaced(SpaceSentences(text))

(***************************************************************************)
(* Context retrieval (EnhancedModelManager._enhance_context).  A working   *)
(* embedder yields one similarity per sentence; similarities are integers  *)
(* (hundredths), and the mean over the embedders is compared by its sum.   *)
(***************************************************************************)
\* the number of sentences kept, and the least number that triggers retrieval
TopSentences == 5
MinRetrievalSentences == 3

\* whether _enhance_context runs the embedders on these sentences
NeedsRetrieval(sentences) == Len(sentences) > MinRetrievalSentences

RECURSIVE SumAt(_, _)
SumAt(sims, i) == IF sims = <<>> THEN 0 ELSE Head(sims)[i] + SumAt(Tail(sims), i)

\* np.argsort(x)[-5:]: the five largest, the later index winning among equals
TopIndices(sims, n) ==
    {i \in 1..n :
        Cardinality({j \in 1..n : \/ SumAt(sims, j) > SumAt(sims, i)
                                  \/ SumAt(sims, j) = SumAt(sims, i) /\ j > i}) < TopSentences}

\* the chosen sentences from the last to the first
PickSentencesBackwards(sentences, top, i) ==
    [k \in 1..Cardinality(top) |->
        sentences[CHOOSE a \in top : Cardinality({b \in top : b > a}) = k - 1]]

RECURSIVE PickSentences(_, _, _)
\* [sentences[i] for i in sorted(top_indices)]
PickSentences(sentences, top, i) ==
    IF i > Len(sentences) THEN <<>>
    ELSE (IF i \in top THEN <<sentences[i]>> ELSE <<>>) \o PickSentences(sentences, top, i + 1)

\* the text _enhance_context returns, sims being the similarity vectors of the
\* embedders that did not raise
_enhance_context(context, sims) ==
    LET sentences == _split_into_sentences(context)
    IN IF ~NeedsRetrieval(sentences) THEN context
       ELSE IF sims = <<>> THEN context
       ELSE Join(PickSentences(sentences, TopIndices(sims, Len(sentences)), 1), " ")

(***************************************************************************)
(* IEEE-754 binary64 arithmetic, as numpy computes with float64 arrays.    *)
(* A natural number is the sequence of its base-2^15 digits, lowest first, *)
(* without leading zero digits; a double is a 53-bit mantissa m and an     *)
(* exponent e standing for m * 2^e (m = 0 for 0.0).  Only the finite,      *)
(* non-negative, normal range is used: scores and weights lie in [0, 1].   *)
(***************************************************************************)
LimbBits == 15
LimbBase == 32768
MantBits == 53

RECURSIVE NatNorm(_)
NatNorm(a) == IF a # <<>> /\ a[Len(a)] = 0 THEN NatNorm(SubSeq(a, 1, Len(a) - 1)) ELSE a

RECURSIVE NatOfInt(_)
NatOfInt(n) == IF n = 0 THEN <<>> ELSE <<n % LimbBase>> \o NatOfInt(n \div LimbBase)

Limb(a, i) == IF i <= Len(a) THEN a[i] ELSE 0

Rest(a) == IF a = <<>> THEN <<>> ELSE Tail(a)

RECURSIVE NatAddC(_, _, _)
NatAddC(a, b, carry) ==
    IF a = <<>> /\ b = <<>>
    THEN IF carry = 0 THEN <<>> ELSE <<carry>>
    ELSE LET s == Limb(a, 1) + Limb(b, 1) + carry
         IN <<s % LimbBase>> \o NatAddC(Rest(a), Rest(b), s \div LimbBase)

NatAdd(a, b) == NatAddC(a, b, 0)

RECURSIVE NatSubB(_, _, _)
NatSubB(a, b, borrow) ==
    IF a = <<>>
    THEN <<>>
    ELSE LET d == a[1] - Limb(b, 1) - borrow
         IN <<IF d < 0 THEN d + LimbBase ELSE d>> \o NatSubB(Tail(a), Rest(b), IF d < 0 THEN 1 ELSE 0)

\* a - b, for a >= b
NatSub(a, b) == NatNorm(NatSubB(a, b, 0))

RECURSIVE NatCmpFrom(_, _, _)
NatCmpFrom(a, b, i) ==
    IF i = 0 THEN 0
    ELSE IF a[i] < b[i] THEN -1
    ELSE IF a[i] > b[i] THEN 1
    ELSE NatCmpFrom(a, b, i - 1)

\* -1, 0 or 1 as a < b, a = b or a > b
NatCmp(a, b) ==
    IF Len(a) < Len(b) THEN -1
    ELSE IF Len(a) > Len(b) THEN 1
    ELSE NatCmpFrom(a, b, Len(a))

RECURSIVE NatMulLimb(_, _, _)
NatMulLimb(a, x, carry) ==
    IF a = <<>>
    THEN IF carry = 0 THEN <<>> ELSE <<carry>>
    ELSE LET p == a[1] * x + carry
         IN <<p % LimbBase>> \o NatMulLimb(Tail(a), x, p \div LimbBase)

RECURSIVE NatMulAcc(_, _)
NatMulAcc(a, b) ==
    IF b = <<>> THEN <<>>
    ELSE NatAdd(NatMulLimb(a, b[1], 0), <<0>> \o NatMulAcc(a, Tail(b)))

NatMul(a, b) == NatNorm(NatMulAcc(a, b))

\* a * 2^k
NatShl(a, k) ==
    NatNorm([i \in 1..(k \div LimbBits) |-> 0] \o NatMulLimb(a, 2 ^ (k % LimbBits), 0))

RECURSIVE NatDivLimb(_, _, _, _)
NatDivLimb(a, x, i, rem) ==
    IF i = 0 THEN <<>>
    ELSE LET cur == rem * LimbBase + a[i]
         IN NatDivLimb(a, x, i - 1, cur % x) \o <<cur \div x>>

\* a \div 2^k
NatShr(a, k) ==
    LET high == SubSeq(a, k \div LimbBits + 1, Len(a))
    IN NatNorm(NatDivLimb(high, 2 ^ (k % LimbBits), Len(high), 0))

RECURSIVE IntBitLen(_)
IntBitLen(n) == IF n = 0 THEN 0 ELSE 1 + IntBitLen(n \div 2)

NatBitLen(a) == IF a = <<>> THEN 0 ELSE LimbBits * (Len(a) - 1) + IntBitLen(a[Len(a)])

RECURSIVE NatDigit(_, _, _, _)
\* the largest d in lo..hi with d * b <= r
NatDigit(r, b, lo, hi) ==
    IF lo = hi THEN lo
    ELSE LET mid == (lo + hi + 1) \div 2
         IN IF NatCmp(NatMulLimb(b, mid, 0), r) <= 0
            THEN NatDigit(r, b, mid, hi)
            ELSE NatDigit(r, b, lo, mid - 1)

RECURSIVE NatDivDigits(_, _, _, _, _)
\* long division, one base-2^15 digit of a at a time from the top
NatDivDigits(a, b, i, q, r) ==
    IF i = 0 THEN [q |-> NatNorm(q), r |-> r]
    ELSE LET r2 == NatNorm(<<a[i]>> \o r)
             d == NatDigit(r2, b, 0, LimbBase - 1)
         IN NatDivDigits(a, b, i - 1, <<d>> \o q, NatSub(r2, NatMulLimb(b, d, 0)))

\* quotient and remainder of a by b # 0
NatDivMod(a, b) == NatDivDigits(a, b, Len(a), <<>>, <<>>)

FZero == [m |-> <<>>, e |-> 0]

\* the double nearest to n * 2^e (plus a fraction of the last bit of n when sticky),
\* ties to even
FRound(n, e, sticky) ==
    LET len == NatBitLen(n)
    IN IF len <= MantBits
       THEN [m |-> NatShl(n, MantBits - len), e |-> e - (MantBits - len)]
       ELSE LET sh == len - MantBits
                q == NatShr(n, sh)
                rem == NatSub(n, NatShl(q, sh))
                c == NatCmp(rem, NatShl(<<1>>, sh - 1))
                up == c > 0 \/ (c = 0 /\ (sticky \/ q[1] % 2 = 1))
                q2 == IF up THEN NatAdd(q, <<1>>) ELSE q
            IN IF NatBitLen(q2) > MantBits
               THEN [m |-> NatShr(q2, 1), e |-> e + sh + 1]
               ELSE [m |-> q2, e |-> e + sh]

\* float(n) for a small integer n >= 0
FInt(n) == IF n = 0 THEN FZero ELSE FRound(NatOfInt(n), 0, FALSE)

\* x + y
FAdd(x, y) ==
    IF x.m = <<>> THEN y
    ELSE IF y.m = <<>> THEN x
    ELSE LET e == IF x.e < y.e THEN x.e ELSE y.e
         IN FRound(NatAdd(NatShl(x.m, x.e - e), NatShl(y.m, y.e - e)), e, FALSE)

\* x * y
FMul(x, y) ==
    IF x.m = <<>> \/ y.m = <<>> THEN FZero
    ELSE FRound(NatMul(x.m, y.m), x.e + y.e, FALSE)

\* x / y for y # 0: 55 or 56 quotient bits and a sticky bit decide the rounding
FDiv(x, y) ==
    IF x.m = <<>> THEN FZero
    ELSE LET d == NatDivMod(NatShl(x.m, MantBits + 2), y.m)
         IN FRound(d.q, x.e - y.e - (MantBits + 2), d.r # <<>>)

\* -1, 0 or 1 as x < y, x = y or x > y
FCmp(x, y) ==
    IF x.m = <<>> /\ y.m = <<>> THEN 0
    ELSE IF x.m = <<>> THEN -1
    ELSE IF y.m = <<>> THEN 1
    ELSE IF x.e < y.e THEN -1
    ELSE IF x.e > y.e THEN 1
    ELSE NatCmp(x.m, y.m)

\* the double a decimal literal num/den denotes (the nearest one)
FDec(num, den) == FDiv(FInt(num), FInt(den))

\* the exact product of two doubles, and the comparison of two such products
ExactMul(x, y) == [m |-> NatMul(x.m, y.m), e |-> x.e + y.e]

ExactCmp(x, y) ==
    LET e == IF x.e < y.e THEN x.e ELSE y.e
    IN NatCmp(NatShl(x.m, x.e - e), NatShl(y.m, y.e - e))

(***************************************************************************)
(* The QA ensemble (EnhancedModelManager.answer_question_enhanced).        *)
(***************************************************************************)
\* the QA models in the order answer_question_enhanced asks them
QAOrder == <<"legal_qa", "bert_qa", "distilbert_qa">>

\* the embedders in the order self.embedders holds them
EmbedderOrder == <<"mpnet", "all_minilm", "paraphrase">>

\* the fixed ensemble weights 0.5, 0.3 and 0.2
WeightLegal == FDec(5, 10)
WeightBert == FDec(3, 10)
WeightDistilbert == FDec(2, 10)

QAWeight(name) ==
    CASE name = "legal_qa" -> WeightLegal
      [] name = "bert_qa" -> WeightBert
      [] name = "distilbert_qa" -> WeightDistilbert

RECURSIVE FSum(_)
\* np.sum: the elements added from the left, starting at 0.0
FSum(xs) == IF xs = <<>> THEN FZero ELSE FAdd(FSum(SubSeq(xs, 1, Len(xs) - 1)), xs[Len(xs)])

\* np.array(scores) * (np.array(weights) / np.sum(weights))
WeightedScores(scores, weights) ==
    LET total == FSum(weights)
    IN [i \in 1..Len(scores) |-> FMul(scores[i], FDiv(weights[i], total))]

\* np.argmax: the first index that holds the largest element
ArgMax(xs) ==
    CHOOSE i \in 1..Len(xs) :
        /\ \A j \in 1..Len(xs) : FCmp(xs[j], xs[i]) <= 0
        /\ \A j \in 1..(i - 1) : FCmp(xs[j], xs[i]) < 0

\* EnhancedModelManager._ensemble_answers, for a non-empty list of answers
_ensemble_answers(answers, scores, weights) ==
    IF Len(answers) = 1
    THEN answers[1]
    ELSE answers[ArgMax(WeightedScores(scores, weights))]

\* np.average(scores, weights=weights)
Average(scores, weights) ==
    FDiv(FSum([i \in 1..Len(scores) |-> FMul(scores[i], weights[i])]), FSum(weights))

(***************************************************************************)
(* Text operations of Python used by the summarizer and the answer         *)
(* post-processing: str.split, str.lower, substring search and re.sub.     *)
(***************************************************************************)
Digits == {"0", "1", "2", "3", "4", "5", "6", "7", "8", "9"}

Capitals == "ABCDEFGHIJKLMNOPQRSTUVWXYZ"
Letters == "abcdefghijklmnopqrstuvwxyz"

LowerCase == {Char(Letters, k) : k \in 1..Len(Letters)}

\* the characters \w matches
WordChars == UpperCase \cup LowerCase \cup Digits \cup {"_"}

\* the least element of a non-empty set of integers
Least(S) == CHOOSE x \in S : \A y \in S : x <= y

\* the elements of a set of integers in increasing order
SortedSeq(S) ==
    [k \in 1..Cardinality(S) |-> CHOOSE i \in S : Cardinality({j \in S : j < i}) = k - 1]

\* the last position of the run of characters of class that starts at i
RunEnd(s, i, class) ==
    CHOOSE e \in i..Len(s) :
        /\ \A k \in i..e : Char(s, k) \in class
        /\ e = Len(s) \/ Char(s, e + 1) \notin class

\* the last position of the run of characters outside class that starts at i
RunEndNot(s, i, class) ==
    CHOOSE e \in i..Len(s) :
        /\ \A k \in i..e : Char(s, k) \notin class
        /\ e = Len(s) \/ Char(s, e + 1) \in class

\* str.split(): the words of s, separated by whitespace
WordStarts(s) ==
    {i \in 1..Len(s) : Char(s, i) \notin Whitespace /\ (i = 1 \/ Char(s, i - 1) \in Whitespace)}

Words(s) ==
    LET WordsAt(starts) ==
            [k \in 1..Len(starts) |-> SubSeq(s, starts[k], RunEndNot(s, starts[k], Whitespace))]
    IN WordsAt(SortedRange(WordStarts(s), 1, Len(s)))

\* len(s.split())
WordCount(s) == Cardinality(WordStarts(s))

\* str.lower() of one character and of a text
LowerChar(c) ==
    IF c \in UpperCase
    THEN Char(Letters, CHOOSE k \in 1..Len(Capitals) : Char(Capitals, k) = c)
    ELSE c

RECURSIVE Lower(_)
Lower(s) ==
    IF s = "" THEN ""
    ELSE IF Len(s) = 1 THEN LowerChar(s)
    ELSE LET half == Len(s) \div 2
         IN Lower(SubSeq(s, 1, half)) \o Lower(SubSeq(s, half + 1, Len(s)))

\* whether word stands in s at position i; with fold, letter case is ignored
MatchesAt(s, i, word, fold) ==
    /\ i >= 1
    /\ i + Len(word) - 1 <= Len(s)
    /\ \A k \in 1..Len(word) :
          IF fold
          THEN LowerChar(Char(s, i + k - 1)) = LowerChar(Char(word, k))
          ELSE Char(s, i + k - 1) = Char(word, k)

\* needle in hay
Contains(hay, needle) == \E i \in 1..(Len(hay) - Len(needle) + 1) : MatchesAt(hay, i, needle, FALSE)

\* s.endswith(('.', '!', '?'))
EndsSentence(s) == s # "" /\ Char(s, Len(s)) \in SentenceEnd

RECURSIVE SplitFrom(_, _, _)
\* s.split(sep), from position start on
SplitFrom(s, sep, start) ==
    LET found == {i \in start..(Len(s) - Len(sep) + 1) : MatchesAt(s, i, sep, FALSE)}
    IN IF found = {}
       THEN <<SubSeq(s, start, Len(s))>>
       ELSE <<SubSeq(s, start, Least(found) - 1)>>
                \o SplitFrom(s, sep, Least(found) + Len(sep))

Split(s, sep) == SplitFrom(s, sep, 1)

\* \b at position i of s: exactly one of the characters before and at i is a word character
WordBoundary(s, i) ==
    (i > 1 /\ Char(s, i - 1) \in WordChars) # (i <= Len(s) /\ Char(s, i) \in WordChars)

RECURSIVE Substitute(_, _, _)
\* re.sub from position start on: spans holds <<from, to, replacement>> for every
\* place the pattern can match; matches are taken from the left and do not overlap
Substitute(s, spans, start) ==
    LET later == {sp \in spans : sp[1] >= start}
    IN IF later = {}
       THEN SubSeq(s, start, Len(s))
       ELSE LET sp == CHOOSE x \in later : \A y \in later : x[1] <= y[1]
            IN SubSeq(s, start, sp[1] - 1) \o sp[3] \o Substitute(s, spans, sp[2] + 1)

\* the spans of the maximal runs of at least `least` characters of class
RunSpans(s, class, least, replacement) ==
    {<<i, RunEnd(s, i, class), replacement>> :
        i \in {j \in 1..Len(s) : /\ Char(s, j) \in class
                                 /\ j = 1 \/ Char(s, j - 1) \notin class
                                 /\ RunEnd(s, j, class) - j + 1 >= least}}

(***************************************************************************)
(* The summarizer's text preparation (EnhancedModelManager._preprocess_text *)
(* and _handle_long_documents).  Texts are ASCII without the backquote.    *)
(***************************************************************************)
AsciiPrintable ==
    " !\"#$%&'()*+,-./0123456789:;<=>?@ABCDEFGHIJKLMNOPQRSTUVWXYZ[\\]^_abcdefghijklmnopqrstuvwxyz{|}~"

Ascii == {Char(AsciiPrintable, k) : k \in 1..Len(AsciiPrintable)} \cup Whitespace

\* the characters of s that are not ASCII
NonAscii(s) == {Char(s, k) : k \in 1..Len(s)} \ Ascii

\* the ASCII characters of the class [\\ \n \r U+200B U+2022 U+00A0 _ =]
Artifacts == {"\\", "\n", "\r", "_", "="}

\* the matches of <.*?>
TagSpans(s) ==
    LET closers(i) == {j \in (i + 1)..Len(s) : Char(s, j) = ">"}
    IN {<<i, Least(closers(i)), " ">> :
           i \in {j \in 1..Len(s) :
                     /\ Char(s, j) = "<"
                     /\ closers(j) # {}
                     /\ \A k \in j..Least(closers(j)) : Char(s, k) # "\n"}}

SectionWords == {"SEC.", "Section", "Article"}

\* the matches of \b(SEC\.|Section|Article)\s*(\d+)\.? without regard to case, each
\* replaced by the prefix followed by its number when keepNumber, by prefix alone otherwise
SectionSpans(s, prefix, keepNumber) ==
    LET heads == {i \in 1..Len(s) :
                     /\ WordBoundary(s, i)
                     /\ \E w \in SectionWords :
                           /\ MatchesAt(s, i, w, TRUE)
                           /\ LET q == SkipSpace(s, i + Len(w))
                              IN q <= Len(s) /\ Char(s, q) \in Digits}
        number(i) == LET w == CHOOSE x \in SectionWords : MatchesAt(s, i, x, TRUE)
                     IN SkipSpace(s, i + Len(w))
        last(i) == LET e == RunEnd(s, number(i), Digits)
                   IN IF e < Len(s) /\ Char(s, e + 1) = "." THEN e + 1 ELSE e
    IN {<<i, last(i),
          IF keepNumber
          THEN prefix \o SubSeq(s, number(i), RunEnd(s, number(i), Digits))
          ELSE prefix>> : i \in heads}

PartyWords == {"Lessee", "Lessor", "Party", "Parties"}

\* the matches of \b(Lessee|Lessor|Party|Parties)\b without regard to case, each
\* replaced by itself between two spaces
PartySpans(s) ==
    {<<i, i + Len(w) - 1, " " \o SubSeq(s, i, i + Len(w) - 1) \o " ">> :
        <<i, w>> \in {x \in (1..Len(s)) \X PartyWords :
                         /\ WordBoundary(s, x[1])
                         /\ MatchesAt(s, x[1], x[2], TRUE)
                         /\ WordBoundary(s, x[1] + Len(x[2]))}}

\* re.sub(r'[\\\n\r...._=]+', ' ', t)
StripArtifacts(t) == Substitute(t, RunSpans(t, Artifacts, 1, " "), 1)

\* re.sub(r'\s{2,}', ' ', t)
SqueezeSpaces(t) == Substitute(t, RunSpans(t, Whitespace, 2, " "), 1)

\* re.sub(r'[^\x00-\x7F]+', ' ', t)
StripNonAscii(t) == Substitute(t, RunSpans(t, NonAscii(t), 1, " "), 1)

_preprocess_text(text) ==
    LET \* re.sub(r'<.*?>', ' ', t)
        StripTags(t) == Substitute(t, TagSpans(t), 1)
        \* re.sub(r'\b(SEC\.|Section|Article)\s*(\d+)\.?', r'Section \2', t, flags=re.IGNORECASE)
        NormalizeSections(t) == Substitute(t, SectionSpans(t, "Section ", TRUE), 1)
        \* re.sub(r'\b(Lessee|Lessor|Party|Parties)\b', r' \1 ', t, flags=re.IGNORECASE)
        SpaceParties(t) == Substitute(t, PartySpans(t), 1)
    IN Strip(SpaceParties(StripNonAscii(SpaceSentences(SqueezeSpaces(
           NormalizeSections(StripTags(StripArtifacts(text))))))))

\* max_tokens * 0.8 words, above which a document is cut down
LongDocumentWords == 9600
\* the number of sentences below which a long document is left as it is
LongDocumentSentences == 10

RECURSIVE JoinWords(_, _, _)
\* " ".join(words[from..to]), built by halves
JoinWords(words, from, to) ==
    IF from > to THEN ""
    ELSE IF from = to THEN words[from]
    ELSE LET mid == (from + to) \div 2
         IN JoinWords(words, from, mid) \o " " \o JoinWords(words, mid + 1, to)

\* the key sections are the first 40%, the middle 20% and the last 40% of the
\* sentences: first_end and middle_start are int(total * 0.4), middle_end and
\* last_start are int(total * 0.6)
_handle_long_documents(text) ==
    LET \* the combined text cut to the word limit
        CutToWordLimit(combined, words) ==
            IF Len(words) > LongDocumentWords
            THEN JoinWords(words, 1, LongDocumentWords)
            ELSE combined
        CombineKeySentences(combined) == CutToWordLimit(combined, Words(combined))
        KeySections(sentences) ==
            IF Len(sentences) < LongDocumentSentences THEN text
            ELSE CombineKeySentences(
                     Join(SubSeq(sentences, 1, (Len(sentences) * 4) \div 10)
                              \o SubSeq(sentences, (Len(sentences) * 4) \div 10 + 1,
                                        (Len(sentences) * 6) \div 10)
                              \o SubSeq(sentences, (Len(sentences) * 6) \div 10 + 1,
                                        Len(sentences)),
                          " "))
    IN IF WordCount(text) <= LongDocumentWords THEN text
       ELSE KeySections(_split_into_sentences(text))

(***************************************************************************)
(* The summarizer's completion, fallback, post-processing and confidence   *)
(* (EnhancedModelManager._ensure_complete_summary, _extract_key_sentences, *)
(* _extractive_summarization, _ensemble_summaries, _postprocess_summary,   *)
(* _calculate_summary_confidence).                                         *)
(***************************************************************************)
legal_keywords ==
    {"lease", "rent", "payment", "term", "agreement", "lessor", "lessee", "covenant",
     "obligation", "right", "duty", "termination", "renewal"}

\* any(keyword in sentence.lower() for keyword in legal_keywords)
HasLegalKeyword(sentence) ==
    \E keyword \in legal_keywords :
        \E i \in 1..Len(sentence) : MatchesAt(sentence, i, keyword, TRUE)

RECURSIVE KeySentencesFrom(_, _, _, _)
\* the loop of _extract_key_sentences from sentence i on, word_count words taken so far
KeySentencesFrom(sentences, i, word_count, max_words) ==
    IF i > Len(sentences) THEN <<>>
    ELSE IF ~HasLegalKeyword(sentences[i])
         THEN KeySentencesFrom(sentences, i + 1, word_count, max_words)
    ELSE IF word_count + WordCount(sentences[i]) <= max_words
         THEN <<sentences[i]>>
                  \o KeySentencesFrom(sentences, i + 1,
                                      word_count + WordCount(sentences[i]), max_words)
    ELSE <<>>

_extract_key_sentences(text, max_words) ==
    Join(KeySentencesFrom(_split_into_sentences(text), 1, 0, max_words), " ")

\* the number of words below which a summary is extended, and the words it may gain
CompleteMinWords == 50
KeySentenceWords == 100

_ensure_complete_summary(summary, original_text) ==
    LET \* '. '.join(sentences[:-1]) + '.' when there is more than one sentence
        DropLastSentence(s, sentences) ==
            IF Len(sentences) > 1
            THEN Join(SubSeq(sentences, 1, Len(sentences) - 1), ". ") \o "."
            ELSE s
        \* the summary cut back to its last '. ' when it does not end a sentence
        CutToLastSentence(s) ==
            IF ~EndsSentence(RStrip(s)) THEN DropLastSentence(s, Split(s, ". ")) ELSE s
        \* the summary extended by the key sentences when it has fewer than 50 words
        ExtendWith(s, additional_content) ==
            IF additional_content # "" THEN s \o " " \o additional_content ELSE s
        ExtendShort(s) ==
            IF WordCount(s) < CompleteMinWords
            THEN ExtendWith(s, _extract_key_sentences(original_text, KeySentenceWords))
            ELSE s
    IN IF summary = "" THEN summary
       ELSE Strip(ExtendShort(CutToLastSentence(summary)))

\* the number of sentences below which the fallback returns the text itself
ExtractiveMinSentences == 3

RECURSIVE SelectByRank(_, _, _, _, _)
\* the selection loop of _extractive_summarization: the sentences are taken in the
\* order of ranking while they fit the budget of words
SelectByRank(sentences, ranking, k, total_words, budget) ==
    IF k > Len(ranking) THEN {}
    ELSE LET sentence_words == WordCount(sentences[ranking[k]])
         IN IF total_words + sentence_words <= budget
            THEN {ranking[k]}
                     \cup SelectByRank(sentences, ranking, k + 1,
                                       total_words + sentence_words, budget)
            ELSE {}

\* tfidf is what the TF-IDF scoring does: it raises, or ranks the sentences (the
\* indices in decreasing order of score)
_extractive_summarization(text, max_length, tfidf) ==
    LET \* text[:max_length] if len(text) > max_length else text
        HeadOfText == IF Len(text) > max_length THEN SubSeq(text, 1, max_length) ELSE text
        ExtractFrom(sentences) ==
            IF Len(sentences) < ExtractiveMinSentences THEN text
            ELSE IF tfidf.raised THEN HeadOfText
            ELSE Join(PickSentences(sentences,
                                    SelectByRank(sentences, tfidf.ranking, 1, 0,
                                                 max_length \div 2),
                                    1),
                      " ")
    IN ExtractFrom(_split_into_sentences(text))

\* for a non-empty list of summaries
_ensemble_summaries(summaries, weights) == summaries[1]

RECURSIVE UniqueStripped(_, _)
\* the sentences stripped, without the empty ones and those already in unique
UniqueStripped(sentences, unique) ==
    IF sentences = <<>> THEN unique
    ELSE LET st == Strip(Head(sentences))
         IN UniqueStripped(Tail(sentences),
                IF st # "" /\ \A k \in 1..Len(unique) : unique[k] # st
                THEN Append(unique, st)
                ELSE unique)

RECURSIVE FillUp(_, _, _)
\* the second loop of _postprocess_summary: sentences of the model outputs are added
\* until min_sentences are there (the test comes after each sentence)
FillUp(all_sentences, unique, min_sentences) ==
    IF all_sentences = <<>> THEN unique
    ELSE LET st == Head(all_sentences)
             added == IF \A k \in 1..Len(unique) : unique[k] # st
                      THEN Append(unique, st)
                      ELSE unique
         IN IF Len(added) >= min_sentences THEN added
            ELSE FillUp(Tail(all_sentences), added, min_sentences)

RECURSIVE AllSentences(_)
\* [s.strip() for s in summ.split('. ') if s.strip()] over all summaries
AllSentences(summaries) ==
    LET \* [s.strip() for s in summ.split('. ') if s.strip()]
        StrippedParts(parts) ==
            SelectSeq([k \in DOMAIN parts |-> Strip(parts[k])], LAMBDA st : st # "")
    IN IF summaries = <<>> THEN <<>>
       ELSE StrippedParts(Split(Head(summaries), ". ")) \o AllSentences(Tail(summaries))

_postprocess_summary(summary, all_summaries, min_sentences) ==
    LET \* the unique sentences, filled up from the model outputs when they are too few
        FilledUp(unique_sentences) ==
            IF Len(unique_sentences) < min_sentences
            THEN FillUp(AllSentences(all_summaries), unique_sentences, min_sentences)
            ELSE unique_sentences
    IN Join(FilledUp(UniqueStripped(
                         Split(SqueezeSpaces(StripNonAscii(StripArtifacts(summary))), ". "),
                         <<>>)),
            ". ")

\* the shortest summary that is scored, and the shortest word that counts as a term
MinSummaryChars == 10
MinTermChars == 3

\* set(word.lower() for word in text.split() if len(word) > 3)
Terms(text) ==
    LET TermsOf(words) ==
            {Lower(words[k]) : k \in {j \in DOMAIN words : Len(words[j]) > MinTermChars}}
    IN TermsOf(Words(text))

\* the value without the cap
CapToOneUncapped(x) == x

\* min(x, 1.0)
CapToOne(x) == IF FCmp(x, FInt(1)) > 0 THEN FInt(1) ELSE x

_calculate_summary_confidence(summary, original_text) ==
    LET \* min(overlap * 2, 1.0), or 0.5 when the original text has no terms
        OverlapConfidence(summary_terms, original_terms) ==
            IF original_terms # {}
            THEN CapToOne(FMul(FDiv(FInt(Cardinality(summary_terms \cap original_terms)),
                                    FInt(Cardinality(original_terms))),
                               FInt(2)))
            ELSE FDec(5, 10)
    IN IF summary = "" \/ Len(summary) < MinSummaryChars THEN FZero
       ELSE OverlapConfidence(Terms(summary), Terms(original_text))

(***************************************************************************)
(* The answer post-processing (EnhancedModelManager._enhance_answer,       *)
(* _apply_legal_postprocessing, _validate_answer_context and               *)
(* _extract_answer_from_context).  A search gives a record: found, and the *)
(* matched text.                                                           *)
(***************************************************************************)
NoMatch == [found |-> FALSE, text |-> ""]

\* the text from the least of the starts to the end its match has
FirstMatch(s, starts, EndOf(_)) ==
    IF starts = {} THEN NoMatch
    ELSE [found |-> TRUE, text |-> SubSeq(s, Least(starts), EndOf(Least(starts)))]

\* the number of digits at position i of s and after, counted up to most
DigitsAt(s, i, most) ==
    IF i <= Len(s) /\ Char(s, i) \in Digits
    THEN (IF RunEnd(s, i, Digits) - i + 1 > most THEN most ELSE RunEnd(s, i, Digits) - i + 1)
    ELSE 0

DurationWords == {"how long", "duration", "period"}
MoneyWords == {"how much", "cost", "price", "amount"}
DateWords == {"when", "date"}

\* any(word in question_lower for word in words)
AnyWordIn(question_lower, words) == \E word \in words : Contains(question_lower, word)

\* the branch of the if / elif chain the question takes
QuestionClass(question) ==
    LET ClassOfLower(question_lower) ==
            IF AnyWordIn(question_lower, DurationWords) THEN "duration"
            ELSE IF AnyWordIn(question_lower, MoneyWords) THEN "money"
            ELSE IF AnyWordIn(question_lower, DateWords) THEN "date"
            ELSE "other"
    IN ClassOfLower(Lower(question))

DurationUnits == {"year", "month", "day", "week"}

\* re.search(r'\d+\s*(years?|months?|days?|weeks?)', s, re.IGNORECASE)
SearchDuration(s) ==
    LET \* the position of the unit of a match that starts at i
        UnitPosition(i) == SkipSpace(s, RunEnd(s, i, Digits) + 1)
        DurationStarts ==
            {i \in 1..Len(s) :
                /\ Char(s, i) \in Digits
                /\ \E u \in DurationUnits : MatchesAt(s, UnitPosition(i), u, TRUE)}
        \* the end of the unit that stands at q, with its optional s
        UnitEnd(q, u) ==
            IF MatchesAt(s, q + Len(u), "s", TRUE) THEN q + Len(u) ELSE q + Len(u) - 1
        DurationEnd(i) ==
            UnitEnd(UnitPosition(i),
                    CHOOSE u \in DurationUnits : MatchesAt(s, UnitPosition(i), u, TRUE))
    IN FirstMatch(s, DurationStarts, DurationEnd)

RECURSIVE ThousandsEnd(_, _)
\* the end of (,\d{3})* after position e
ThousandsEnd(s, e) ==
    IF MatchesAt(s, e + 1, ",", FALSE) /\ DigitsAt(s, e + 2, 3) = 3
    THEN ThousandsEnd(s, e + 4)
    ELSE e

\* re.search(r'\$\d{1,3}(,\d{3})*(\.\d{2})?', s)
SearchMoney(s) ==
    LET \* the end of (\.\d{2})? after position e
        CentsEnd(e) ==
            IF MatchesAt(s, e + 1, ".", FALSE) /\ DigitsAt(s, e + 2, 2) = 2 THEN e + 3 ELSE e
        MoneyStarts == {i \in 1..Len(s) : Char(s, i) = "$" /\ DigitsAt(s, i + 1, 3) >= 1}
        MoneyEnd(i) == CentsEnd(ThousandsEnd(s, i + DigitsAt(s, i + 1, 3)))
    IN FirstMatch(s, MoneyStarts, MoneyEnd)

DateSeparators == {"/", "-"}

\* re.search(r'\d{1,2}[/-]\d{1,2}[/-]\d{2,4}', s)
SearchDate(s) ==
    LET \* the position after \d{1,2}[/-] matched at i, or 0 when it does not match there
        AfterDatePart(i) ==
            IF i = 0 THEN 0
            ELSE IF /\ DigitsAt(s, i, 3) >= 2
                    /\ i + 2 <= Len(s)
                    /\ Char(s, i + 2) \in DateSeparators
                 THEN i + 3
            ELSE IF /\ DigitsAt(s, i, 3) >= 1
                    /\ i + 1 <= Len(s)
                    /\ Char(s, i + 1) \in DateSeparators
                 THEN i + 2
            ELSE 0
        YearStart(i) == AfterDatePart(AfterDatePart(i))
        DateStarts ==
            {i \in 1..Len(s) : YearStart(i) # 0 /\ DigitsAt(s, YearStart(i), 4) >= 2}
        DateEnd(i) == YearStart(i) + DigitsAt(s, YearStart(i), 4) - 1
    IN FirstMatch(s, DateStarts, DateEnd)

\* the search of the pattern of a class of question
SearchPattern(class, s) ==
    CASE class = "duration" -> SearchDuration(s)
      [] class = "money" -> SearchMoney(s)
      [] class = "date" -> SearchDate(s)
      [] OTHER -> NoMatch

_apply_legal_postprocessing(answer, question) ==
    LET \* re.sub(r'\b(SEC\.|Section|Article)\s*\d+\.?', '', a, flags=re.IGNORECASE)
        DropSections(a) == Substitute(a, SectionSpans(a, "", FALSE), 1)
        \* re.sub(r'\s+', ' ', a)
        OneSpace(a) == Substitute(a, RunSpans(a, Whitespace, 1, " "), 1)
        \* the match of the question's pattern in the answer, or the stripped answer
        MatchOrStripped(found, a) == IF found.found THEN found.text ELSE Strip(a)
        ExtractByClass(class, a) == MatchOrStripped(SearchPattern(class, a), a)
    IN ExtractByClass(QuestionClass(question), OneSpace(DropSections(answer)))

_validate_answer_context(answer, context) ==
    LET \* set(word.lower() for word in context.split())
        LowerAll(words) == {Lower(words[k]) : k \in DOMAIN words}
        \* overlap >= 0.5 for the terms of the answer, or True when it has none
        HalfInContext(answer_terms, context_terms) ==
            IF answer_terms # {}
            THEN FCmp(FDiv(FInt(Cardinality(answer_terms \cap context_terms)),
                           FInt(Cardinality(answer_terms))),
                      FDec(5, 10)) >= 0
            ELSE TRUE
    IN HalfInContext(Terms(answer), LowerAll(Words(context)))

_extract_answer_from_context(question, context) ==
    SearchPattern(QuestionClass(question), context)

_enhance_answer(answer, question, context) ==
    LET \* the extracted answer when there is one, the answer otherwise
        ExtractedOr(extracted_answer, a) ==
            IF extracted_answer.found /\ extracted_answer.text # ""
            THEN extracted_answer.text
            ELSE a
        \* the steps after the post-processing
        Validated(a) ==
            IF ~_validate_answer_context(a, context)
            THEN ExtractedOr(_extract_answer_from_context(question, context), a)
            ELSE a
    IN Validated(_apply_legal_postprocessing(Strip(answer), question))

(***************************************************************************)
(* The chunk retrieval of qa.py (get_top_n_chunks).  The TF-IDF scoring is *)
(* the library's: it raises, or it yields top_indices, the n most relevant *)
(* chunks with the most relevant first.                                    *)
(***************************************************************************)
\* the number of words above which a paragraph is split into sentences
ParagraphWords == 100

RECURSIVE ChunksOf(_)
\* the loop over the paragraphs
ChunksOf(paragraphs) ==
    IF paragraphs = <<>> THEN <<>>
    ELSE (IF WordCount(Head(paragraphs)) > ParagraphWords
          THEN Split(Head(paragraphs), ". ")
          ELSE <<Head(paragraphs)>>)
             \o ChunksOf(Tail(paragraphs))

\* the chunks of a context, the blank ones removed
Chunks(context) ==
    SelectSeq(ChunksOf(Split(context, "\n\n")), LAMBDA chunk : Strip(chunk) # "")

\* get_top_n_chunks when the scoring is not reached
NotRanked == [raised |-> FALSE, top |-> <<>>]

\* what the scoring of len chunks can do
RankOutcomes(len, n) ==
    IF len <= n THEN {NotRanked}
    ELSE {[raised |-> TRUE, top |-> <<>>]}
             \cup {[raised |-> FALSE, top |-> t] :
                      t \in {f \in [1..n -> 1..len] : \A a, b \in 1..n : a # b => f[a] # f[b]}}

\* the text get_top_n_chunks returns when the scoring does not raise
get_top_n_chunks(context, n, top_indices) ==
    LET \* " ".join([chunks[i] for i in top_indices]), or the context when the chunks are few
        JoinTop(chunks) ==
            IF Len(chunks) <= n THEN context
            ELSE Join([k \in 1..Len(top_indices) |-> chunks[top_indices[k]]], " ")
    IN JoinTop(Chunks(context))

(***************************************************************************)
(* Entity extraction (LegalDomainFeatures, legal_domain_features.py).      *)
(* The model carries the entity sets 'amounts' and 'regulations'; the      *)
(* documents of the model hold no match of the other seven patterns, whose *)
(* sets therefore stay empty.                                              *)
(***************************************************************************)
\* the keys of self.patterns that have a match in the model's documents, in the
\* order in which _extract_legal_entities walks the dict
EntityTypes == <<"amounts", "regulations">>

RegulationWords == {"Regulation", "Rule", "Order"}

\* [m.group() for m in pattern.finditer(s)] as a set: the matches are taken from
\* left to right and the search resumes at the end of each match
RECURSIVE FindAll(_, _, _)
FindAll(s, starts, ends) ==
    LET \* the match at the first start, then the matches after its end
        Taking(i) == {SubSeq(s, i, ends[i])} \cup FindAll(s, {j \in starts : j > ends[i]}, ends)
    IN IF starts = {} THEN {} ELSE Taking(Least(starts))

\* the matches of self.patterns[entity_type] in text
PatternMatches(entity_type, text) ==
    LET \* \$\d{1,3}(?:,\d{3})*(?:\.\d{2})?
        AmountAt(i) == Char(text, i) = "$" /\ DigitsAt(text, i + 1, 3) >= 1
        CentsEnd(e) ==
            IF MatchesAt(text, e + 1, ".", FALSE) /\ DigitsAt(text, e + 2, 2) = 2
            THEN e + 3 ELSE e
        AmountEnd(i) == CentsEnd(ThousandsEnd(text, i + DigitsAt(text, i + 1, 3)))
        \* \b(?:Regulation|Rule|Order)\s+\d+\b
        WordAt(i, w) ==
            /\ MatchesAt(text, i, w, FALSE)
            /\ WordBoundary(text, i)
            /\ i + Len(w) <= Len(text)
            /\ Char(text, i + Len(w)) \in Whitespace
            /\ RunEnd(text, i + Len(w), Whitespace) < Len(text)
            /\ Char(text, RunEnd(text, i + Len(w), Whitespace) + 1) \in Digits
            /\ WordBoundary(text, RunEnd(text, RunEnd(text, i + Len(w), Whitespace) + 1, Digits) + 1)
        RegulationAt(i) == \E w \in RegulationWords : WordAt(i, w)
        RegulationEnd(i) ==
            RunEnd(text, RunEnd(text, RunEndNot(text, i, Whitespace) + 1, Whitespace) + 1, Digits)
        AmountStarts == {i \in 1..Len(text) : AmountAt(i)}
        RegulationStarts == {i \in 1..Len(text) : RegulationAt(i)}
    IN IF entity_type = "amounts"
       THEN FindAll(text, AmountStarts, [i \in AmountStarts |-> AmountEnd(i)])
       ELSE FindAll(text, RegulationStarts, [i \in RegulationStarts |-> RegulationEnd(i)])

\* the documents processed by the requests of the model
DRent == "The rent is $2,500 per month under Rule 5."
DDeposit == "The deposit is $900. See Regulation 12 and Order 7b."
DPets == "Pets are not allowed here."
Documents == {DRent, DDeposit, DPets}

(***************************************************************************)
(* State.                                                                  *)
(***************************************************************************)
VARIABLES
    max_size,    \* QACache.max_size
    cache,       \* QACache._cache
    qa_model,    \* qa.py module state: the loaded model, or None
    clock,       \* number of set operations and answer_question calls so far
    insertedAt,  \* history: for each stored key, the clock at which it entered the dict
    readKeys,    \* history: the stored keys that get has read since they entered
    setSince,    \* history: the pairs set since construction or the last clear
    held,        \* history: per pair, the result answer_question returned and still cached
    failed,      \* history: pairs whose call raised, nothing stored under their key since
    lastOp,      \* the last operation, its arguments and its outcome
    models,      \* EnhancedModelManager.models: the names of the loaded QA pipelines
    embedders,   \* EnhancedModelManager.embedders: the names of the loaded embedders
    enh,         \* the current or last call of answer_question_enhanced
    summ,        \* the current or last call of generate_enhanced_summary
    fn,          \* the last application of one of the text functions, with its result
    wrappers,    \* the calls of cache_qa_result.wrapper in flight, one per request thread
    legal_domain_processor,  \* routes.py: the entity sets of the shared LegalDomainFeatures
    process_calls            \* the calls of process_legal_document in flight, one per request

cacheVars == <<max_size, cache, qa_model, clock, insertedAt, readKeys, setSince, held, failed, lastOp>>

enhVars == <<models, embedders, enh>>

concVars == <<wrappers, legal_domain_processor, process_calls>>

vars == <<max_size, cache, qa_model, clock, insertedAt, readKeys, setSince, held, failed, lastOp,
          models, embedders, enh, summ, fn, wrappers, legal_domain_processor, process_calls>>

\* lastOp of a state no operation has led to; the operations fill in their fields:
\* the arguments, the value returned (ret), whether the call raised, whether the
\* wrapped function and the model ran, and which keys left the dict
NoOp ==
    [op |-> "init", question |-> "", context |-> "", answer |-> None, ret |-> None,
     raised |-> FALSE, invoked |-> FALSE, modelInvoked |-> FALSE,
     evicted |-> {}, evictedRead |-> FALSE, wasHeld |-> FALSE, wasFailed |-> FALSE]

\* the insertion stamps after the dict changed from d to d2 at time t
Stamps(stamps, d, d2, t) ==
    [k \in DictKeys(d2) |-> IF k \in DictKeys(d) THEN stamps[k] ELSE t]

PairKey(p) == _generate_key(p[1], p[2])

PairsOfKey(k) == {p \in Pairs : PairKey(p) = k}

\* enh while answer_question_enhanced has not been called; a call fills in its
\* arguments, the embedders and QA pipelines it ran (embedCalls, qaCalls), the text
\* handed to the pipelines (context_used), the answers with their scores and weights
\* in the order they were collected, and what it returned (the fused answer selected,
\* the answer after _enhance_answer, the confidence) or that it raised
NoCall ==
    [pc |-> "idle", question |-> "", context |-> "", context_used |-> "",
     embedCalls |-> {}, qaCalls |-> {}, qaRaised |-> {}, models_used |-> <<>>, answers |-> <<>>,
     scores |-> <<>>, weights |-> <<>>, outcome |-> "none", raised |-> FALSE,
     selected |-> None, answer |-> None, confidence |-> None]

\* the manager as the cache specifications leave it: constructed and never called
ManagerIdle ==
    /\ models = {"legal_qa"}
    /\ embedders = {"mpnet"}
    /\ enh = NoCall

\* summ while generate_enhanced_summary has not been called; a call fills in its
\* arguments, the prepared text (cleaned_text), the number of times it ran the model
\* (attempts), whether the model raised (model_failed) and the TF-IDF scoring ran
\* (tfidf_ran), the model's first output (raw), the summary made of the model's
\* outputs so far (candidate), the summaries it collected, and what it returned
\* (summary, confidence) or that it raised
NoSummary ==
    [pc |-> "idle", text |-> "", max_length |-> 0, min_length |-> 0, cleaned_text |-> "",
     attempts |-> 0, model_failed |-> FALSE, tfidf_ran |-> FALSE, raw |-> "",
     candidate |-> "", summaries |-> <<>>, raised |-> FALSE, summary |-> "", confidence |-> None]

SummaryIdle == summ = NoSummary

\* fn while none of the text functions has been applied
NoApply == [op |-> "none"]

FnIdle == fn = NoApply

\* a request thread that is not inside cache_qa_result.wrapper; a call fills in its
\* arguments, the result of the wrapped function, what iter() and next() gave the
\* eviction step of QACache.set (iter_used, victim), and what it returned or that it raised
NoWrapper ==
    [pc |-> "idle", question |-> "", context |-> "", result |-> None,
     iter_used |-> 0, victim |-> "", raised |-> FALSE, ret |-> None]

\* the threads that serve requests
Threads == {"t1", "t2"}

\* LegalDomainFeatures.__init__: every entity set is empty
NoEntities == [entity_type \in {EntityTypes[i] : i \in 1..Len(EntityTypes)} |-> {}]

\* a request that is not inside process_legal_document; a call fills in its text,
\* the number of entity sets it has cleared, filled and copied into its result so
\* far (done), and the entities of its result
NoProcess == [pc |-> "idle", text |-> "", done |-> 0, entities |-> NoEntities]

\* the request threads and the shared processor as the sequential specifications
\* leave them
ConcIdle ==
    /\ wrappers = [t \in Threads |-> NoWrapper]
    /\ legal_domain_processor = NoEntities
    /\ process_calls = [t \in Threads |-> NoProcess]

\* the cache and qa.py as the other specifications leave them: constructed, not used
CacheIdle ==
    /\ max_size = 1
    /\ cache = <<>>
    /\ qa_model = None
    /\ clock = 0
    /\ insertedAt = [k \in {} |-> 0]
    /\ readKeys = {}
    /\ setSince = {}
    /\ held = [p \in Pairs |-> None]
    /\ failed = {}
    /\ lastOp = NoOp

\* QACache(max_size) and the import of qa.py
Init ==
    /\ ConcIdle
    /\ ManagerIdle
    /\ SummaryIdle
    /\ FnIdle
    /\ max_size \in 1..MaxMaxSize
    /\ cache = <<>>
    /\ qa_model \in {[model |-> "legal_QA_model"], None}
    /\ clock = 0
    /\ insertedAt = [k \in {} |-> 0]
    /\ readKeys = {}
    /\ setSince = {}
    /\ held = [p \in Pairs |-> None]
    /\ failed = {}
    /\ lastOp = NoOp

(***************************************************************************)
(* The operations of QACache.                                              *)
(***************************************************************************)
Set(question, context, answer) ==
    /\ clock < MaxOps
    /\ clock' = clock + 1
    /\ cache' = CacheSet(cache, max_size, question, context, answer)
    /\ LET kept == CacheEvict(cache, max_size)
           gone == DictKeys(cache) \ DictKeys(kept)
       IN /\ insertedAt' = Stamps(insertedAt, kept, cache', clock')
          /\ readKeys' = readKeys \cap DictKeys(kept)
          /\ lastOp' = [NoOp EXCEPT !.op = "set", !.question = question,
                                    !.context = context, !.answer = answer,
                                    !.evicted = gone,
                                    !.evictedRead = /\ gone # {}
                                                    /\ gone \subseteq readKeys
                                                    /\ DictKeys(kept) \ readKeys # {}]
    /\ setSince' = setSince \cup {<<question, context>>}
    /\ UNCHANGED <<max_size, qa_model, held, failed>>
    /\ UNCHANGED <<enhVars, summ, fn, concVars>>

Get(question, context) ==
    /\ lastOp' = [NoOp EXCEPT !.op = "get", !.question = question, !.context = context,
                              !.ret = CacheGet(cache, question, context)]
    /\ readKeys' = readKeys \cup ({_generate_key(question, context)} \cap DictKeys(cache))
    /\ UNCHANGED <<max_size, cache, qa_model, clock, insertedAt, setSince, held, failed>>
    /\ UNCHANGED <<enhVars, summ, fn, concVars>>

Clear ==
    /\ cache' = CacheClear(cache)
    /\ insertedAt' = Stamps(insertedAt, cache, cache', clock)
    /\ readKeys' = readKeys \cap DictKeys(cache')
    /\ setSince' = {}
    /\ held' = [p \in Pairs |-> IF PairKey(p) \in DictKeys(cache') THEN held[p] ELSE None]
    /\ lastOp' = [NoOp EXCEPT !.op = "clear", !.evicted = DictKeys(cache) \ DictKeys(cache')]
    /\ UNCHANGED <<max_size, qa_model, clock, failed>>
    /\ UNCHANGED <<enhVars, summ, fn, concVars>>

SetAny == \E p \in Pairs, a \in Answers : Set(p[1], p[2], a)

GetAny == \E p \in Pairs : Get(p[1], p[2])

Next == SetAny \/ GetAny \/ Clear

Spec == Init /\ [][Next]_vars

(***************************************************************************)
(* answer_question(question, context): one call through the wrapper.       *)
(***************************************************************************)
AnswerQuestion(question, context) ==
    /\ clock < MaxOps
    /\ clock' = clock + 1
    /\ LET cached == CacheGet(cache, question, context)
           p == <<question, context>>
           called == [NoOp EXCEPT !.op = "answer_question", !.question = question,
                                  !.context = context, !.wasHeld = held[p] # None,
                                  !.wasFailed = p \in failed]
       IN IF WrapperHit(cached)
          THEN /\ lastOp' = [called EXCEPT !.ret = cached]
               /\ held' = [held EXCEPT ![p] = cached]
               /\ UNCHANGED <<cache, insertedAt, failed>>
          ELSE \E out \in AnswerQuestionOutcomes(qa_model, question, context) :
               /\ cache' = CacheAfterCall(cache, max_size, question, context, out)
               /\ insertedAt' = Stamps(insertedAt, cache, cache', clock')
               /\ lastOp' = [called EXCEPT !.ret = out.result, !.raised = out.raised,
                                           !.invoked = TRUE,
                                           !.modelInvoked = out.modelInvoked,
                                           !.evicted = DictKeys(cache) \ DictKeys(cache')]
               /\ held' = [r \in Pairs |->
                             IF r = p /\ ~out.raised THEN out.result
                             ELSE IF PairKey(r) \in DictKeys(cache') THEN held[r] ELSE None]
               /\ failed' = IF out.raised
                            THEN failed \cup {p}
                            ELSE failed \ PairsOfKey(PairKey(p))
    /\ UNCHANGED <<max_size, qa_model, readKeys, setSince>>
    /\ UNCHANGED <<enhVars, summ, fn, concVars>>

AnswerAny == \E p \in Pairs : AnswerQuestion(p[1], p[2])

NextQA == AnswerAny \/ Clear

SpecQA == Init /\ [][NextQA]_vars

(***************************************************************************)
(* answer_question_enhanced(question, context) of EnhancedModelManager.    *)
(* A call takes two steps: the context retrieval, which runs the           *)
(* embedders, and then the QA pipelines with the fusion of their answers;  *)
(* its outcome stays in enh until the caller has taken it.                 *)
(***************************************************************************)
QRent == "How much is the monthly rent?"
QBlank == "   "
CRent == "The rent is $2,500 per month, payable by the 5th."
CTiny == "Rent due."
CLease ==
    "The lease runs for 12 months. The rent is $2,500 per month. Rent is payable by the 5th. "
    \o "The deposit is $5,000. Pets are not allowed here. Notice must be given in writing."

EnhInputs ==
    {<<QRent, CRent>>, <<QRent, CLease>>, <<QBlank, CRent>>, <<QRent, CEmpty>>,
     <<QRent, CTiny>>}

\* the loaded pipelines initialize_models can leave behind: legal_qa and mpnet are
\* mandatory, the others are skipped when they fail to load
QAConfigs ==
    {{"legal_qa"}, {"legal_qa", "bert_qa"}, {"legal_qa", "distilbert_qa"},
     {"legal_qa", "bert_qa", "distilbert_qa"}}
EmbedderConfigs == {{"mpnet"}, {"mpnet", "all_minilm", "paraphrase"}}

\* what an embedder can do on n sentences: raise, or give each a similarity
SimChoices(n) ==
    {[i \in 1..n |-> 10 * i], [i \in 1..n |-> 100 - 10 * i], [i \in 1..n |-> 50]}

EmbedOutcomes(n) ==
    {[raised |-> TRUE, sims |-> <<>>]}
        \cup {[raised |-> FALSE, sims |-> v] : v \in SimChoices(n)}

\* what a QA pipeline can do: raise, or give an answer text with a score
Score408 == FDec(408, 1000)
Score680 == FDec(680, 1000)
Score900 == FDec(900, 1000)
ModelScores == {Score408, Score680, Score900}

ModelTexts(name) ==
    CASE name = "legal_qa" -> {"$2,500", "the 5th"}
      [] name = "bert_qa" -> {"$2,500"}
      [] name = "distilbert_qa" -> {"12 months"}

QARaise == [raised |-> TRUE, answer |-> "", score |-> FZero]

QAOutcomes(name) ==
    {QARaise} \cup {[raised |-> FALSE, answer |-> a, score |-> sc] :
                        a \in ModelTexts(name), sc \in ModelScores}

\* a failure of one pipeline taken as the failure of all
SucceededOrNone(order, outs, i) ==
    IF \E m \in DOMAIN outs : outs[m].raised
    THEN <<>>
    ELSE SelectSeq(SubSeq(order, i, Len(order)), LAMBDA m : m \in DOMAIN outs)

RECURSIVE Succeeded(_, _, _)
\* the names of order, from position i on, whose pipeline in outs did not raise
Succeeded(order, outs, i) ==
    IF i > Len(order) THEN <<>>
    ELSE (IF order[i] \in DOMAIN outs /\ ~outs[order[i]].raised THEN <<order[i]>> ELSE <<>>)
             \o Succeeded(order, outs, i + 1)

\* the manager after initialize_models
InitEnh ==
    /\ ConcIdle
    /\ CacheIdle
    /\ SummaryIdle
    /\ FnIdle
    /\ models \in QAConfigs
    /\ embedders \in EmbedderConfigs
    /\ enh = NoCall

\* the call up to the return of _enhance_context
EnhanceContext(question, context) ==
    /\ enh.pc = "idle"
    /\ LET sentences == _split_into_sentences(context)
           asked == IF NeedsRetrieval(sentences) THEN embedders ELSE {}
       IN \E outs \in [asked -> EmbedOutcomes(Len(sentences))] :
              LET worked == Succeeded(EmbedderOrder, outs, 1)
                  sims == [i \in 1..Len(worked) |-> outs[worked[i]].sims]
              IN enh' = [NoCall EXCEPT !.pc = "retrieved", !.question = question,
                                       !.context = context, !.embedCalls = asked,
                                       !.context_used = _enhance_context(context, sims)]
    /\ UNCHANGED <<models, embedders>>
    /\ UNCHANGED <<cacheVars, summ, fn, concVars>>

\* the rest of the call: every loaded QA pipeline is asked, the answers are fused
AnswerEnhanced ==
    /\ enh.pc = "retrieved"
    /\ \E outs \in [models -> UNION {QAOutcomes(m) : m \in models}] :
          /\ \A m \in models : outs[m] \in QAOutcomes(m)
          /\ LET used == Succeeded(QAOrder, outs, 1)
                 threw == {m \in models : outs[m].raised}
                 answers == [i \in 1..Len(used) |-> outs[used[i]].answer]
                 scores == [i \in 1..Len(used) |-> outs[used[i]].score]
                 weights == [i \in 1..Len(used) |-> QAWeight(used[i])]
             IN IF used = <<>>
                THEN enh' = [enh EXCEPT !.pc = "done", !.qaCalls = models,
                                        !.qaRaised = threw,
                                        !.outcome = "No models could generate answers",
                                        !.raised = TRUE]
                ELSE \E final_answer \in {_ensemble_answers(answers, scores, weights)} :
                        enh' = [enh EXCEPT !.pc = "done", !.qaCalls = models,
                                           !.qaRaised = threw,
                                           !.models_used = used, !.answers = answers,
                                           !.scores = scores, !.weights = weights,
                                           !.outcome = "answer",
                                           !.selected = final_answer,
                                           !.answer = _enhance_answer(final_answer,
                                                                      enh.question,
                                                                      enh.context_used),
                                           !.confidence = Average(scores, weights)]
    /\ UNCHANGED <<models, embedders>>
    /\ UNCHANGED <<cacheVars, summ, fn, concVars>>

\* the caller takes the outcome; the manager keeps nothing of the call
ReturnEnhanced ==
    /\ enh.pc = "done"
    /\ enh' = NoCall
    /\ UNCHANGED <<models, embedders>>
    /\ UNCHANGED <<cacheVars, summ, fn, concVars>>

EnhanceAny == \E p \in EnhInputs : EnhanceContext(p[1], p[2])

NextEnh == EnhanceAny \/ AnswerEnhanced \/ ReturnEnhanced

SpecEnh == InitEnh /\ [][NextEnh]_vars

(***************************************************************************)
(* generate_enhanced_summary(text, max_length, min_length) of              *)
(* EnhancedModelManager.  A call takes the steps: preparation and first    *)
(* run of the model, the retry, the extractive fallback, the fusion with   *)
(* the post-processing; its outcome stays in summ until the caller has     *)
(* taken it.                                                               *)
(***************************************************************************)
TDoc ==
    "The lease runs for 12 months. The rent is $2,500 per month. Pets are not allowed here. "
    \o "Notice must be given in writing."
TPets == "Pets are not allowed here. Notice must be given in writing."
TBlank == " \n\n "
TRaw == "The Lessee pays rent.See SEC. 5 for terms.\n\nNotice is given in writing.  Pets stay out."

SummaryTexts == {TDoc, TPets, TBlank, TRaw}

\* the values of max_length and min_length tried; the defaults are 4096 and 200
MaxLengths == {8, 24, 4096}
MinLengths == {5, 55}

\* outputs of the summarization model: nothing, a fragment, a sentence and a
\* fragment, one sentence, 13 sentences of 4 words, six words of a sentence, and a
\* sentence that is the last one of TDoc with a legal keyword
OutEmpty == ""
OutFragment == "The tenant shall"
OutClipped == "The tenant pays rent. The tenant shall"
OutSentence == "The lease runs for 12 months."
OutLong ==
    "Rule 1 is set. Rule 2 is set. Rule 3 is set. Rule 4 is set. Rule 5 is set. "
    \o "Rule 6 is set. Rule 7 is set. Rule 8 is set. Rule 9 is set. Rule 10 is set. "
    \o "Rule 11 is set. Rule 12 is set. Rule 13 is set."
OutOpen == "The tenant shall pay the rent"
OutRent == "The rent is $2,500 per month."

SummarizerOutcomes ==
    {[raised |-> TRUE, text |-> ""]}
        \cup {[raised |-> FALSE, text |-> t] :
                 t \in {OutEmpty, OutFragment, OutClipped, OutSentence, OutLong, OutOpen, OutRent}}

\* what the TF-IDF scoring of n sentences can do: raise, or rank them in any order
TfidfOutcomes(n) ==
    {[raised |-> TRUE, ranking |-> <<>>]}
        \cup {[raised |-> FALSE, ranking |-> r] :
                 r \in {f \in [1..n -> 1..n] : \A a, b \in 1..n : a # b => f[a] # f[b]}}

TfidfNotRun == [raised |-> FALSE, ranking |-> <<>>]

\* the number of sentences _postprocess_summary is asked to reach
PostprocessMinSentences == 8

\* a retry test that looks at the word count only
NeedsRetryShortOnly(summary, min_length) == WordCount(summary) < min_length

\* the test that sends generate_enhanced_summary into its retry
NeedsRetry(summary, min_length) ==
    WordCount(summary) < min_length \/ ~EndsSentence(Strip(summary))

\* the manager and the texts before any call
InitSum ==
    /\ ConcIdle
    /\ CacheIdle
    /\ ManagerIdle
    /\ SummaryIdle
    /\ FnIdle

\* the call up to the first run of the model and the completion of its output
SummarizeCall(text, max_length, min_length) ==
    LET \* the call after the text is prepared
        Started(cleaned_text) ==
            [NoSummary EXCEPT !.text = text, !.max_length = max_length,
                              !.min_length = min_length, !.cleaned_text = cleaned_text,
                              !.attempts = 1]
        \* the call after the first run of the model gave the completed summary
        AfterFirstRun(called, raw, summary) ==
            [called EXCEPT !.raw = raw,
                           !.candidate = summary,
                           !.pc = IF NeedsRetry(summary, min_length) THEN "retry" ELSE "fuse",
                           !.summaries = IF NeedsRetry(summary, min_length)
                                         THEN <<>> ELSE <<summary>>]
    IN /\ summ.pc = "idle"
       /\ \E cleaned_text \in {_handle_long_documents(_preprocess_text(text))} :
             \E out \in SummarizerOutcomes :
                summ' = IF out.raised
                        THEN [Started(cleaned_text)
                                 EXCEPT !.pc = "fallback", !.model_failed = TRUE]
                        ELSE AfterFirstRun(Started(cleaned_text), out.text,
                                           _ensure_complete_summary(out.text, cleaned_text))
       /\ UNCHANGED <<cacheVars, enhVars, fn, concVars>>

\* a handler that keeps the first summary when the second run of the model raises
RetryRaisedKeepsFirst(call) ==
    [call EXCEPT !.pc = "fuse", !.model_failed = TRUE, !.attempts = 2,
                 !.summaries = <<call.candidate>>]

\* the second run of the model raised: the except clause is entered with nothing
\* appended to summaries
RetryRaised(call) == [call EXCEPT !.pc = "fallback", !.model_failed = TRUE, !.attempts = 2]

\* the second run of the model; the longer of the two summaries is kept
SummarizeRetry ==
    LET \* retry_summary if len(retry_summary.split()) > len(summary.split()) else summary
        LongerOf(retry_summary, summary) ==
            IF WordCount(retry_summary) > WordCount(summary) THEN retry_summary ELSE summary
        AfterRetry(summary) ==
            [summ EXCEPT !.pc = "fuse", !.attempts = 2, !.candidate = summary,
                         !.summaries = <<summary>>]
    IN /\ summ.pc = "retry"
       /\ \E out \in SummarizerOutcomes :
             summ' = IF out.raised
                     THEN RetryRaised(summ)
                     ELSE AfterRetry(LongerOf(_ensure_complete_summary(out.text,
                                                                       summ.cleaned_text),
                                              summ.candidate))
       /\ UNCHANGED <<cacheVars, enhVars, fn, concVars>>

\* the model raised: the extractive fallback
SummarizeFallback ==
    LET \* the fallback summary is kept when it is not empty
        AfterFallback(scored, fallback_summary) ==
            [summ EXCEPT !.pc = "fuse", !.tfidf_ran = scored,
                         !.summaries = IF fallback_summary # ""
                                       THEN <<fallback_summary>> ELSE <<>>]
    IN /\ summ.pc = "fallback"
       /\ \E n \in {Len(_split_into_sentences(summ.cleaned_text))} :
             \E tfidf \in IF n >= ExtractiveMinSentences
                          THEN TfidfOutcomes(n) ELSE {TfidfNotRun} :
                summ' = AfterFallback(n >= ExtractiveMinSentences,
                                      _extractive_summarization(summ.cleaned_text,
                                                                summ.max_length, tfidf))
       /\ UNCHANGED <<cacheVars, enhVars, fn, concVars>>

\* the fusion, the post-processing and the confidence, or the raise when there is
\* no summary
SummarizeFinish ==
    LET Finished(final_summary) ==
            [summ EXCEPT !.pc = "done",
                         !.summary = final_summary,
                         !.confidence = _calculate_summary_confidence(final_summary,
                                                                      summ.cleaned_text)]
    IN /\ summ.pc = "fuse"
       /\ summ' = IF summ.summaries = <<>>
                  THEN [summ EXCEPT !.pc = "done", !.raised = TRUE]
                  ELSE Finished(_postprocess_summary(
                                    _ensemble_summaries(
                                        summ.summaries,
                                        [k \in 1..Len(summ.summaries) |-> FInt(1)]),
                                    summ.summaries, PostprocessMinSentences))
       /\ UNCHANGED <<cacheVars, enhVars, fn, concVars>>

\* the caller takes the outcome; the manager keeps nothing of the call
SummarizeReturn ==
    /\ summ.pc = "done"
    /\ summ' = NoSummary
    /\ UNCHANGED <<cacheVars, enhVars, fn, concVars>>

SummarizeAny ==
    \E text \in SummaryTexts, max_length \in MaxLengths, min_length \in MinLengths :
        SummarizeCall(text, max_length, min_length)

NextSum ==
    SummarizeAny \/ SummarizeRetry \/ SummarizeFallback \/ SummarizeFinish \/ SummarizeReturn

SpecSum == InitSum /\ [][NextSum]_vars

(***************************************************************************)
(* The text functions applied on their own: _enhance_answer,               *)
(* _enhance_context and get_top_n_chunks.  fn holds the arguments and the  *)
(* result of the last application until the caller has taken it.           *)
(***************************************************************************)
QTerm == "How long is the lease term?"
QDue == "When is the rent due?"
QPets == "Which section covers pets?"
QAmount == "What is the rent amount?"
FnQuestions == {QRent, QTerm, QDue, QPets}

CSections == "Pets are covered in Section 5 of the lease. The term is 12 months from 1/2/2024."
FnContexts == {CRent, CSections}

\* answers a QA pipeline can select
FnAnswers ==
    {"$2,500", "payable", "the 5th", " The rent ", "Section 5", "12 months", "three weeks",
     "1/2/2024"}

\* the similarities tried: those of SimChoices and one that is not monotone
SimsTried(n) == SimChoices(n) \cup {[i \in 1..n |-> (37 * i) % 100]}

\* what one or two loaded embedders can do on n sentences: each raises or gives
\* one of the similarity vectors tried
EmbedderRuns(n) ==
    LET Tried == {[raised |-> TRUE, sims |-> <<>>]}
                     \cup {[raised |-> FALSE, sims |-> v] : v \in SimsTried(n)}
    IN UNION {[loaded -> Tried] : loaded \in {{"mpnet"}, {"mpnet", "all_minilm"}}}

RetrievalContexts == {CLease, TDoc, CRent}

CParas ==
    "The rent is due monthly.\n\nPets are not allowed.\n\nParking is not included.\n\n"
    \o "The rent amount is $2,500."
CGaps == "First part.\n\n\n\nSecond part.\n\n  \n\nThird part."
CLongPara ==
    "Rule 1 is set. Rule 2 is set. Rule 3 is set. Rule 4 is set. "
    \o "Rule 5 is set. Rule 6 is set. Rule 7 is set. Rule 8 is set. "
    \o "Rule 9 is set. Rule 10 is set. Rule 11 is set. Rule 12 is set. "
    \o "Rule 13 is set. Rule 14 is set. Rule 15 is set. Rule 16 is set. "
    \o "Rule 17 is set. Rule 18 is set. Rule 19 is set. Rule 20 is set. "
    \o "Rule 21 is set. Rule 22 is set. Rule 23 is set. Rule 24 is set. "
    \o "Rule 25 is set. Rule 26 is set."

\* a paragraph of one sentence of 102 words, and a short paragraph
Clause10 == "the tenant shall pay rent on the first day and "
CRunOn ==
    Clause10 \o Clause10 \o Clause10 \o Clause10 \o Clause10 \o Clause10 \o Clause10
    \o Clause10 \o Clause10 \o Clause10 \o "so on.\n\nPets are not allowed."

\* the contexts with the values of n tried; the default of n is 3
ChunkInputs ==
    {<<CParas, 1>>, <<CParas, 2>>, <<CParas, 3>>, <<CParas, 4>>, <<CGaps, 2>>, <<CGaps, 3>>,
     <<CLongPara, 1>>, <<CRent, 3>>, <<CRunOn, 1>>}

RECURSIVE Repeat(_, _)
\* s * n, built by halves
Repeat(s, n) ==
    IF n = 0 THEN ""
    ELSE IF n = 1 THEN s
    ELSE Repeat(s, n \div 2) \o Repeat(s, n - n \div 2)

\* prepared documents: one of 1000 sentences of 15 words, its thirds made of three
\* different sentences (15000 words); one of 1000 sentences of 4 words; one of 9602
\* words that has no sentence boundary inside; and one of four sentences
SFirst == "The tenant shall pay the rent on the first day of each month in full."
SMiddle == "The landlord shall keep the building in good repair at all times of the year."
SLast == "Either side may end the lease early by written notice of at least sixty days."
DocThirds ==
    Repeat(SFirst \o " ", 333) \o Repeat(SMiddle \o " ", 333) \o Repeat(SLast \o " ", 333)
        \o SLast
DocBrief == Repeat("The rules apply here. ", 999) \o "Notice is given in writing."
DocRunOn == Repeat(Clause10, 960) \o "so on."
LongDocuments == {DocThirds, DocBrief, DocRunOn, TDoc}

InitFn ==
    /\ ConcIdle
    /\ CacheIdle
    /\ ManagerIdle
    /\ SummaryIdle
    /\ FnIdle

ApplyEnhanceAnswer(answer, question, context) ==
    /\ fn = NoApply
    /\ fn' = [op |-> "_enhance_answer", answer |-> answer, question |-> question,
              context |-> context, result |-> _enhance_answer(answer, question, context)]
    /\ UNCHANGED <<cacheVars, enhVars, summ, concVars>>

\* _enhance_context with the embedders of DOMAIN outs loaded, each doing what outs
\* says: sims holds the similarity vectors of those that did not raise
ApplyEnhanceContext(context, outs) ==
    /\ fn = NoApply
    /\ \E worked \in {Succeeded(EmbedderOrder, outs, 1)} :
          \E sims \in {[i \in 1..Len(worked) |-> outs[worked[i]].sims]} :
             fn' = [op |-> "_enhance_context", context |-> context, outs |-> outs,
                    sims |-> sims, result |-> _enhance_context(context, sims)]
    /\ UNCHANGED <<cacheVars, enhVars, summ, concVars>>

ApplyTopChunks(question, context, n) ==
    /\ fn = NoApply
    /\ \E tfidf \in RankOutcomes(Len(Chunks(context)), n) :
          fn' = [op |-> "get_top_n_chunks", question |-> question, context |-> context,
                 n |-> n, chunks |-> Chunks(context), raised |-> tfidf.raised,
                 top_indices |-> tfidf.top,
                 result |-> IF tfidf.raised THEN ""
                            ELSE get_top_n_chunks(context, n, tfidf.top)]
    /\ UNCHANGED <<cacheVars, enhVars, summ, concVars>>

\* _handle_long_documents on a prepared text; sentences are those of the text
ApplyHandleLong(text) ==
    /\ fn = NoApply
    /\ fn' = [op |-> "_handle_long_documents", text |-> text,
              sentences |-> _split_into_sentences(text),
              result |-> _handle_long_documents(text)]
    /\ UNCHANGED <<cacheVars, enhVars, summ, concVars>>

\* the caller takes the result
TakeResult ==
    /\ fn # NoApply
    /\ fn' = NoApply
    /\ UNCHANGED <<cacheVars, enhVars, summ, concVars>>

EnhanceAnswerAny ==
    \E answer \in FnAnswers, question \in FnQuestions, context \in FnContexts :
        ApplyEnhanceAnswer(answer, question, context)

EnhanceContextAny ==
    \E context \in RetrievalContexts :
        \E outs \in EmbedderRuns(Len(_split_into_sentences(context))) :
            ApplyEnhanceContext(context, outs)

TopChunksAny == \E p \in ChunkInputs : ApplyTopChunks(QAmount, p[1], p[2])

HandleLongAny == \E text \in LongDocuments : ApplyHandleLong(text)

NextFn ==
    EnhanceAnswerAny \/ EnhanceContextAny \/ TopChunksAny \/ HandleLongAny \/ TakeResult

SpecFn == InitFn /\ [][NextFn]_vars

(***************************************************************************)
(* Concurrent requests through cache_qa_result.wrapper.  The server        *)
(* handles each request in a thread of its own; qa_cache is shared and     *)
(* QACache takes no lock, so that the threads interleave between the       *)
(* calls a wrapper makes: get, the wrapped function, and in set the size   *)
(* test, iter, next, pop and the assignment.                               *)
(***************************************************************************)
\* d.pop(key) for a key that is in the dict
DictPop(d, key) == SelectSeq(d, LAMBDA e : e.key # key)

raceFrame == <<max_size, qa_model, clock, insertedAt, readKeys, setSince, held, failed, lastOp>>

\* wrapper lines 36-38: the lookup, and the return of a cached result
WrapperEnter(t, question, context) ==
    /\ wrappers[t].pc = "idle"
    /\ \E cached \in {CacheGet(cache, question, context)} :
          wrappers' = [wrappers EXCEPT ![t] =
              IF WrapperHit(cached)
              THEN [NoWrapper EXCEPT !.pc = "return", !.question = question,
                                     !.context = context, !.ret = cached]
              ELSE [NoWrapper EXCEPT !.pc = "call", !.question = question,
                                     !.context = context]]
    /\ UNCHANGED <<cache, raceFrame>>
    /\ UNCHANGED <<enhVars, summ, fn, legal_domain_processor, process_calls>>

\* wrapper line 41: the wrapped function returns a result or raises
WrapperCall(t) ==
    /\ wrappers[t].pc = "call"
    /\ \E out \in AnswerQuestionOutcomes(qa_model, wrappers[t].question, wrappers[t].context) :
          wrappers' = [wrappers EXCEPT ![t] =
              IF out.raised
              THEN [@ EXCEPT !.pc = "return", !.raised = TRUE]
              ELSE [@ EXCEPT !.pc = "check", !.result = out.result]]
    /\ UNCHANGED <<cache, raceFrame>>
    /\ UNCHANGED <<enhVars, summ, fn, legal_domain_processor, process_calls>>

\* QACache.set line 21: the size test
SetCheck(t) ==
    /\ wrappers[t].pc = "check"
    /\ wrappers' = [wrappers EXCEPT ![t].pc =
                       IF CacheIsFull(cache, max_size) THEN "iter" ELSE "assign"]
    /\ UNCHANGED <<cache, raceFrame>>
    /\ UNCHANGED <<enhVars, summ, fn, legal_domain_processor, process_calls>>

\* line 23, iter(self._cache): the iterator remembers the size of the dict
SetIter(t) ==
    /\ wrappers[t].pc = "iter"
    /\ wrappers' = [wrappers EXCEPT ![t].pc = "next", ![t].iter_used = Len(cache)]
    /\ UNCHANGED <<cache, raceFrame>>
    /\ UNCHANGED <<enhVars, summ, fn, legal_domain_processor, process_calls>>

\* line 23, next(...): RuntimeError when the dict changed size since iter,
\* StopIteration when it is empty, its first key otherwise
SetNext(t) ==
    /\ wrappers[t].pc = "next"
    /\ wrappers' = [wrappers EXCEPT ![t] =
          IF Len(cache) # wrappers[t].iter_used \/ Len(cache) = 0
          THEN [@ EXCEPT !.pc = "return", !.raised = TRUE]
          ELSE [@ EXCEPT !.pc = "pop", !.victim = cache[1].key]]
    /\ UNCHANGED <<cache, raceFrame>>
    /\ UNCHANGED <<enhVars, summ, fn, legal_domain_processor, process_calls>>

\* line 23, self._cache.pop(key): KeyError when the key has left the dict
SetPop(t) ==
    /\ wrappers[t].pc = "pop"
    /\ IF DictHas(cache, wrappers[t].victim)
       THEN /\ cache' = DictPop(cache, wrappers[t].victim)
            /\ wrappers' = [wrappers EXCEPT ![t].pc = "assign"]
       ELSE /\ wrappers' = [wrappers EXCEPT ![t].pc = "return", ![t].raised = TRUE]
            /\ UNCHANGED cache
    /\ UNCHANGED raceFrame
    /\ UNCHANGED <<enhVars, summ, fn, legal_domain_processor, process_calls>>

\* line 24, self._cache[key] = answer, and the return of the result (wrapper line 43)
SetAssign(t) ==
    /\ wrappers[t].pc = "assign"
    /\ cache' = DictAssign(cache, _generate_key(wrappers[t].question, wrappers[t].context),
                           wrappers[t].result)
    /\ wrappers' = [wrappers EXCEPT ![t].pc = "return", ![t].ret = wrappers[t].result]
    /\ UNCHANGED raceFrame
    /\ UNCHANGED <<enhVars, summ, fn, legal_domain_processor, process_calls>>

\* the request is served; the thread takes the next one
WrapperReturn(t) ==
    /\ wrappers[t].pc = "return"
    /\ wrappers' = [wrappers EXCEPT ![t] = NoWrapper]
    /\ UNCHANGED <<cache, raceFrame>>
    /\ UNCHANGED <<enhVars, summ, fn, legal_domain_processor, process_calls>>

WrapperEnterAny == \E t \in Threads, p \in Pairs : WrapperEnter(t, p[1], p[2])

WrapperCallAny == \E t \in Threads : WrapperCall(t)

SetCheckAny == \E t \in Threads : SetCheck(t)

SetIterAny == \E t \in Threads : SetIter(t)

SetNextAny == \E t \in Threads : SetNext(t)

SetPopAny == \E t \in Threads : SetPop(t)

SetAssignAny == \E t \in Threads : SetAssign(t)

WrapperReturnAny == \E t \in Threads : WrapperReturn(t)

NextRace ==
    \/ WrapperEnterAny
    \/ WrapperCallAny
    \/ SetCheckAny
    \/ SetIterAny
    \/ SetNextAny
    \/ SetPopAny
    \/ SetAssignAny
    \/ WrapperReturnAny

SpecRace == Init /\ [][NextRace]_vars

(***************************************************************************)
(* Concurrent requests through process_document (routes.py), which calls   *)
(* process_legal_document on the one LegalDomainFeatures instance of the   *)
(* module.  The entity sets are attributes of the instance; a call clears  *)
(* them, fills them from its text and copies them into its result, one set *)
(* at a time, and the threads interleave between these steps.  The         *)
(* relationships, terms and category of the result are computed in locals. *)
(***************************************************************************)
featFrame == <<cacheVars, enhVars, summ, fn, wrappers>>

EntityTypeAt(k) == EntityTypes[k]

\* the call after one more step of its current phase: the next phase starts when
\* the step was taken for every entity set
Stepped(call, next_pc) ==
    IF call.done + 1 = Len(EntityTypes)
    THEN [call EXCEPT !.pc = next_pc, !.done = 0]
    ELSE [call EXCEPT !.done = @ + 1]

\* routes.py line 327: the request enters process_legal_document
ProcessEnter(t, text) ==
    /\ process_calls[t].pc = "idle"
    /\ process_calls' = [process_calls EXCEPT ![t] = [NoProcess EXCEPT !.pc = "clear", !.text = text]]
    /\ UNCHANGED <<featFrame, legal_domain_processor>>

\* _clear_extractions: one of the self.<entity_type>.clear() calls
ProcessClear(t) ==
    /\ process_calls[t].pc = "clear"
    /\ legal_domain_processor' =
          [legal_domain_processor EXCEPT ![EntityTypeAt(process_calls[t].done + 1)] = {}]
    /\ process_calls' = [process_calls EXCEPT ![t] = Stepped(@, "extract")]
    /\ UNCHANGED featFrame

\* _extract_legal_entities: the matches of one pattern are added to its set
ProcessExtract(t) ==
    /\ process_calls[t].pc = "extract"
    /\ legal_domain_processor' =
          [legal_domain_processor EXCEPT ![EntityTypeAt(process_calls[t].done + 1)] =
              @ \cup PatternMatches(EntityTypeAt(process_calls[t].done + 1), process_calls[t].text)]
    /\ process_calls' = [process_calls EXCEPT ![t] = Stepped(@, "copy")]
    /\ UNCHANGED featFrame

\* the return statement: list(self.<entity_type>) for one entity set
ProcessCopy(t) ==
    /\ process_calls[t].pc = "copy"
    /\ process_calls' = [process_calls EXCEPT ![t] =
          Stepped([@ EXCEPT !.entities[EntityTypeAt(process_calls[t].done + 1)] =
                       legal_domain_processor[EntityTypeAt(process_calls[t].done + 1)]],
                  "return")]
    /\ UNCHANGED <<featFrame, legal_domain_processor>>

\* the caller has the result; the thread takes the next request
ProcessReturn(t) ==
    /\ process_calls[t].pc = "return"
    /\ process_calls' = [process_calls EXCEPT ![t] = NoProcess]
    /\ UNCHANGED <<featFrame, legal_domain_processor>>

ProcessEnterAny == \E t \in Threads, text \in Documents : ProcessEnter(t, text)

ProcessClearAny == \E t \in Threads : ProcessClear(t)

ProcessExtractAny == \E t \in Threads : ProcessExtract(t)

ProcessCopyAny == \E t \in Threads : ProcessCopy(t)

ProcessReturnAny == \E t \in Threads : ProcessReturn(t)

NextFeat ==
    \/ ProcessEnterAny
    \/ ProcessClearAny
    \/ ProcessExtractAny
    \/ ProcessCopyAny
    \/ ProcessReturnAny

SpecFeat == InitFn /\ [][NextFeat]_vars

(***************************************************************************)
(* Properties of the cache.                                                *)
(***************************************************************************)
\* C2: a QACache with max_size >= 1 never stores more than max_size entries,
\* whatever sequence of set, get and clear calls it has served.
C2_BoundedSize == Len(cache) <= max_size

\* a set has been served by a cache that was already full
C2_Witness == lastOp.op = "set" /\ lastOp.evicted # {} /\ Len(cache) = max_size

\* C3: a set that inserts a new key into a full cache removes exactly one entry, the
\* one whose key entered the dict earliest among those present, and leaves every
\* other entry retrievable with its value; a get changes neither the entries nor
\* their insertion order, so reads never decide which entry is evicted.
C3_EvictsOldestInserted ==
    [][/\ (lastOp'.op = "get") => (cache' = cache /\ insertedAt' = insertedAt)
       /\ (/\ lastOp'.op = "set"
           /\ clock' = clock + 1
           /\ Len(cache) = max_size
           /\ ~DictHas(cache, _generate_key(lastOp'.question, lastOp'.context)))
          => LET gone == DictKeys(cache) \ DictKeys(cache')
             IN /\ Cardinality(gone) = 1
                /\ \A g \in gone : \A o \in DictKeys(cache) : insertedAt[g] <= insertedAt[o]
                /\ \A o \in DictKeys(cache) \ gone : DictGet(cache', o) = DictGet(cache, o)]_vars

\* a new key pushed out the oldest entry although get had read that entry and had
\* not read a younger one that stayed
C3_Witness ==
    /\ lastOp.op = "set"
    /\ lastOp.evictedRead
    /\ insertedAt[_generate_key(lastOp.question, lastOp.context)] = clock
    /\ Len(cache) >= 2

\* C4: right after set(question, context, answer), get(question, context) returns
\* that answer, whatever the cache held before.
C4_SetThenGet ==
    lastOp.op = "set" => CacheGet(cache, lastOp.question, lastOp.context) = lastOp.answer

\* the set replaced an entry of a full cache
C4_Witness == lastOp.op = "set" /\ lastOp.evicted # {} /\ clock >= 2

\* C5: get returns None for every pair that has not been set since the cache was
\* created or last cleared; distinct pairs never share an entry.
C5_UnsetPairAbsent == \A p \in Pairs \ setSince : CacheGet(cache, p[1], p[2]) = None

\* C6: after clear() the cache holds no entry and get returns None for every pair.
C6_ClearEmpties ==
    lastOp.op = "clear" => (cache = <<>> /\ \A p \in Pairs : CacheGet(cache, p[1], p[2]) = None)

\* clear was called on a cache that held entries
C6_Witness == lastOp.op = "clear" /\ lastOp.evicted # {}

(***************************************************************************)
(* Properties of the cached answer_question.                               *)
(***************************************************************************)
\* C1: when answer_question returned r for a pair and the entry has not been evicted
\* or cleared since, the next call with that pair returns r without invoking the
\* wrapped function or the model.
C1_CacheHit ==
    [][(lastOp'.op = "answer_question" /\ clock' = clock + 1
        /\ held[<<lastOp'.question, lastOp'.context>>] # None)
       => /\ ~lastOp'.raised
          /\ lastOp'.ret = held[<<lastOp'.question, lastOp'.context>>]
          /\ ~lastOp'.invoked
          /\ ~lastOp'.modelInvoked]_vars

\* a pair whose model answer is still cached has been asked again
C1_Witness ==
    /\ lastOp.op = "answer_question"
    /\ lastOp.wasHeld
    /\ lastOp.ret \in {ModelResult(a) : a \in ModelOutputs}

\* C7: when the wrapped function raises, the call raises, the cache is left as it
\* was with no entry for the pair, and a later call with the same pair, made before
\* anything is stored under its key, invokes the function again.
C7_RaiseNotCached ==
    [][(lastOp'.op = "answer_question" /\ clock' = clock + 1)
       => /\ lastOp'.raised
             => (cache' = cache /\ CacheGet(cache', lastOp'.question, lastOp'.context) = None)
          /\ <<lastOp'.question, lastOp'.context>> \in failed => lastOp'.invoked]_vars

\* a pair whose call had raised was called again, with other results cached
C7_Witness ==
    /\ lastOp.op = "answer_question"
    /\ lastOp.raised
    /\ lastOp.wasFailed
    /\ cache # <<>>

\* C8: whatever the question and whether or not the QA model is loaded, a call with
\* an empty or too short context returns the EmptyInput result and runs no model.
C8_ShortContextEmptyInput ==
    (lastOp.op = "answer_question" /\ ContextTooShort(lastOp.context))
    => (~lastOp.raised /\ lastOp.ret = EmptyInputResult /\ ~lastOp.modelInvoked)

(***************************************************************************)
(* Properties of answer_question_enhanced.                                 *)
(***************************************************************************)
\* C9: a call of answer_question_enhanced whose question is blank, or whose context is
\* blank or too short, ends in a descriptive EmptyInput outcome and has run no embedder
\* and no QA pipeline.
C9_EmptyInputFailsFast ==
    (enh.pc = "done" /\ (Strip(enh.question) = "" \/ ContextTooShort(enh.context)))
        => /\ enh.outcome = "EmptyInput"
           /\ enh.embedCalls = {}
           /\ enh.qaCalls = {}

\* C10: the answer selected from a non-empty list of answers is the text of the
\* earliest model whose score times weight, as real numbers, is the largest among the
\* models that answered.
C10_SelectsMaxScoreTimesWeight ==
    (enh.pc = "done" /\ ~enh.raised)
        => LET n == Len(enh.answers)
               product(i) == ExactMul(enh.scores[i], enh.weights[i])
               best == CHOOSE i \in 1..n :
                          /\ \A j \in 1..n : ExactCmp(product(j), product(i)) <= 0
                          /\ \A j \in 1..(i - 1) : ExactCmp(product(j), product(i)) < 0
           IN enh.selected = enh.answers[best]

\* C11: a call of answer_question_enhanced raises exactly when every loaded QA
\* pipeline raised; otherwise the pipelines that raised are left out, and the answers
\* of the others, in the order the models are asked, are fused into a returned result
\* that carries one of these answers and a confidence.
C11_FailedModelsExcluded ==
    enh.pc = "done"
        => /\ enh.qaCalls = models
           /\ enh.raised <=> enh.qaRaised = models
           /\ ~enh.raised =>
                 /\ enh.outcome = "answer"
                 /\ enh.models_used =
                        SelectSeq(QAOrder, LAMBDA m : m \in models \ enh.qaRaised)
                 /\ Len(enh.answers) = Len(enh.models_used)
                 /\ Len(enh.scores) = Len(enh.models_used)
                 /\ \E i \in 1..Len(enh.answers) : enh.selected = enh.answers[i]
                 /\ enh.confidence # None

C11_Witness ==
    /\ enh.pc = "done"
    /\ ~enh.raised
    /\ enh.qaRaised # {}
    /\ Len(enh.answers) = 2

\* the text is sentences of the source, in their order, joined by one space
InSourceOrder(text, sentences) ==
    \E chosen \in SUBSET (1..Len(sentences)) :
        text = Join(PickSentences(sentences, chosen, 1), " ")

\* C12: when the summarization model raises, generate_enhanced_summary on a
\* non-empty text does not fail: it returns the extractive fallback, which is
\* sentences of the source in their original order within the length budget
C12_ModelFailureFallsBack ==
    (summ.pc = "done" /\ summ.model_failed /\ summ.text # "")
        => /\ ~summ.raised
           /\ InSourceOrder(summ.summary, _split_into_sentences(summ.cleaned_text))
           /\ WordCount(summ.summary) <= summ.max_length

\* a sentence without its final '.', '!' or '?'
RStripEnd(sentence) ==
    IF EndsSentence(sentence) THEN SubSeq(sentence, 1, Len(sentence) - 1) ELSE sentence

\* the sentences of the source that carry a legal keyword and are not in the text
UnusedKeySentences(text, source) ==
    {k \in DOMAIN _split_into_sentences(source) :
        /\ HasLegalKeyword(_split_into_sentences(source)[k])
        /\ ~Contains(text, RStripEnd(_split_into_sentences(source)[k]))}

\* C13: when the summarization model succeeds, generate_enhanced_summary never
\* returns a summary of fewer than min_length words while sentences of the source
\* that carry a legal keyword remain unused
C13_ShortSummaryExtended ==
    (summ.pc = "done" /\ ~summ.model_failed /\ ~summ.raised)
        => \/ WordCount(summ.summary) >= summ.min_length
           \/ UnusedKeySentences(summ.summary, summ.cleaned_text) = {}

\* C14: every summary _ensure_complete_summary produces from a non-empty model
\* output ends with '.', '!' or '?' (summ.candidate is its result for the first
\* output summ.raw of the model)
C14_CompletedSummaryEndsSentence ==
    (summ.pc \in {"retry", "fuse"} /\ summ.attempts = 1 /\ ~summ.model_failed /\ summ.raw # "")
        => /\ summ.candidate = _ensure_complete_summary(summ.raw, summ.cleaned_text)
           /\ EndsSentence(summ.candidate)

\* 0 <= x <= 1
InUnitInterval(x) == FCmp(FZero, x) <= 0 /\ FCmp(x, FInt(1)) <= 0

\* C17: _calculate_summary_confidence returns a value within [0, 1], and 0.0 when
\* the summary is empty or shorter than 10 characters (summ.confidence is its
\* result for the returned summary and the prepared text)
C17_ConfidenceInUnitInterval ==
    (summ.pc = "done" /\ ~summ.raised)
        => /\ summ.confidence = _calculate_summary_confidence(summ.summary, summ.cleaned_text)
           /\ InUnitInterval(summ.confidence)
           /\ Len(summ.summary) < MinSummaryChars => summ.confidence = FZero

\* a returned summary sharing more than half of the terms of the text, whose
\* doubled overlap is capped at 1.0
C17_Witness ==
    /\ summ.pc = "done"
    /\ ~summ.raised
    /\ Len(summ.summary) >= MinSummaryChars
    /\ 2 * Cardinality(Terms(summ.summary) \cap Terms(summ.cleaned_text))
           > Cardinality(Terms(summ.cleaned_text))
    /\ summ.confidence = FInt(1)

(***************************************************************************)
(* Properties of the answer post-processing and of the retrieval.          *)
(***************************************************************************)
\* C15: for a question classified as duration, monetary amount or date, when the
\* selected answer has no span matching the pattern of that class and the context
\* has one, _enhance_answer returns the first matching span of the context
C15_ContextSpanReplacesAnswer ==
    (/\ fn.op = "_enhance_answer"
     /\ QuestionClass(fn.question) # "other"
     /\ ~SearchPattern(QuestionClass(fn.question), fn.answer).found
     /\ SearchPattern(QuestionClass(fn.question), fn.context).found)
        => fn.result = SearchPattern(QuestionClass(fn.question), fn.context).text

\* C16: for every non-empty selected answer, the answer _enhance_answer returns is
\* non-empty and is either the original answer text or a span of the context
C16_AnswerNeverDiscarded ==
    (fn.op = "_enhance_answer" /\ fn.answer # "")
        => /\ fn.result # ""
           /\ fn.result \in {fn.answer, Strip(fn.answer)} \/ Contains(fn.context, fn.result)

\* the sentences numbered in chosen, each once, in the order of the document
InDocumentOrder(sentences, chosen) ==
    Join([k \in 1..Cardinality(chosen) |-> sentences[SortedSeq(chosen)[k]]], " ")

\* chosen holds most of the n sentences, or all of them when there are fewer, and
\* none left out has a higher summed similarity than one chosen
IsTopChoice(chosen, sims, n, most) ==
    /\ Cardinality(chosen) = (IF n < most THEN n ELSE most)
    /\ \A i \in chosen, j \in (1..n) \ chosen : SumAt(sims, i) >= SumAt(sims, j)

\* the text is a top choice of the sentences in the order of the document
IsTopInOrder(text, sentences, sims) ==
    \E chosen \in SUBSET (1..Len(sentences)) :
        /\ IsTopChoice(chosen, sims, Len(sentences), 5)
        /\ text = InDocumentOrder(sentences, chosen)

\* C18: for a context of more than 3 sentences and at least one working embedder,
\* _enhance_context returns at most 5 sentences, those of the highest similarity
\* averaged over the working embedders and never more than there are, joined in
\* their original order, each sentence at most once
C18_TopSentencesInDocumentOrder ==
    (/\ fn.op = "_enhance_context"
     /\ fn.sims # <<>>
     /\ Len(_split_into_sentences(fn.context)) > 3)
        => IsTopInOrder(fn.result, _split_into_sentences(fn.context), fn.sims)

\* six sentences, two embedders whose summed similarities leave out the third
\* sentence: the five others are returned in the order of the document
C18_Witness ==
    /\ fn.op = "_enhance_context"
    /\ fn.context = CLease
    /\ Len(fn.sims) = 2
    /\ \A j \in {1, 2, 4, 5, 6} : SumAt(fn.sims, j) > SumAt(fn.sims, 3)
    /\ fn.result = InDocumentOrder(_split_into_sentences(CLease), {1, 2, 4, 5, 6})

\* C19: whenever get_top_n_chunks selects the top n chunks by relevance, the selected
\* chunks stand in the returned text in the order they have in the context
C19_TopChunksInSourceOrder ==
    (fn.op = "get_top_n_chunks" /\ ~fn.raised /\ Len(fn.chunks) > fn.n)
        => \E chosen \in SUBSET (1..Len(fn.chunks)) :
              /\ Cardinality(chosen) = fn.n
              /\ fn.result = InDocumentOrder(fn.chunks, chosen)

\* C20: for a non-empty text, the chunks of get_top_n_chunks concatenated in order
\* are the text again, no character dropped at a boundary
C20_ChunksReconstructText ==
    (fn.op = "get_top_n_chunks" /\ fn.context # "") => Join(fn.chunks, "") = fn.context

EntitiesOf(text) ==
    [entity_type \in DOMAIN NoEntities |-> PatternMatches(entity_type, text)]

\* C30: the result of process_legal_document(text) on the shared LegalDomainFeatures
\* instance holds exactly the entities extracted from that text, whatever calls
\* came before it and whatever calls run concurrently for other requests.
C30_ResultHoldsOwnEntities ==
    \A t \in Threads :
        process_calls[t].pc = "return"
            => process_calls[t].entities = EntitiesOf(process_calls[t].text)

(***************************************************************************)
(* Properties of the retry of the summarization model.                     *)
(***************************************************************************)
\* the first summary of the call in summ after _ensure_complete_summary
FirstSummary == _ensure_complete_summary(summ.raw, summ.cleaned_text)

\* the first run of the model returned and the call is past its retry test
PastRetryTest ==
    /\ summ.pc \in {"fuse", "fallback", "done"}
    /\ ~(summ.attempts = 1 /\ summ.model_failed)

\* whether first is short of min_length words or does not end in '.', '!' or '?'
ShortOrOpen(first, min_length) ==
    \/ WordCount(first) < min_length
    \/ Strip(first) = ""
    \/ Char(Strip(first), Len(Strip(first))) \notin {".", "!", "?"}

\* what C23 says of a call whose first summary is first
RetryRule(first) ==
    /\ summ.attempts = 2 <=> ShortOrOpen(first, summ.min_length)
    /\ (summ.attempts = 2 /\ ~summ.model_failed /\ summ.candidate # first)
          => WordCount(summ.candidate) > WordCount(first)
    /\ (summ.attempts = 1) => summ.candidate = first

\* C23: within one generate_enhanced_summary call the summarization model runs at
\* most twice; it runs a second time exactly when the first summary, after
\* completion, has fewer than min_length words or does not end in terminal
\* punctuation, and the retry's summary replaces the first one only when it has
\* strictly more words.
C23_SingleRetryWhenShortOrOpen ==
    /\ summ.attempts <= 2
    /\ PastRetryTest => RetryRule(FirstSummary)

\* a retried call whose second summary replaced the first one
C23_Witness ==
    /\ summ.pc = "done"
    /\ summ.attempts = 2
    /\ ~summ.model_failed
    /\ summ.candidate # FirstSummary
    /\ WordCount(FirstSummary) >= summ.min_length

\* what the extractive fallback can return for the prepared text: one summary for
\* each outcome of the TF-IDF scoring
FallbackSummaries(cleaned_text, max_length) ==
    LET ForSentences(n) ==
            {_extractive_summarization(cleaned_text, max_length, tfidf) :
                 tfidf \in IF n >= ExtractiveMinSentences THEN TfidfOutcomes(n) ELSE {TfidfNotRun}}
    IN ForSentences(Len(_split_into_sentences(cleaned_text)))

\* the retry of the call in summ raised after its first run had given a summary
RetryFailed ==
    /\ summ.pc \in {"fuse", "done"}
    /\ summ.attempts = 2
    /\ summ.model_failed

\* C24: when the first run of the model succeeds and the retry raises, the first
\* summary is dropped: the call collects only the extractive fallback of the
\* prepared text, returns its post-processed form, and raises when the fallback is
\* empty.
C24_FailedRetryDropsFirstSummary ==
    RetryFailed =>
        /\ \/ summ.summaries = <<>>
           \/ /\ Len(summ.summaries) = 1
              /\ summ.summaries[1] # ""
              /\ summ.summaries[1] \in FallbackSummaries(summ.cleaned_text, summ.max_length)
        /\ summ.pc = "done" =>
              IF summ.summaries = <<>>
              THEN summ.raised
              ELSE /\ ~summ.raised
                   /\ summ.summary = _postprocess_summary(summ.summaries[1], summ.summaries,
                                                          PostprocessMinSentences)

\* a call that returned the fallback after its retry raised, its first summary lost
C24_Witness ==
    /\ RetryFailed
    /\ summ.pc = "done"
    /\ ~summ.raised
    /\ summ.candidate # ""
    /\ summ.summary # summ.candidate

(***************************************************************************)
(* Properties of the retrieval when embedders fail.                        *)
(***************************************************************************)
\* the similarity vectors of the embedders of outs that did not raise
RemainingSims(outs) ==
    LET Remaining ==
            SelectSeq(EmbedderOrder, LAMBDA m : m \in DOMAIN outs /\ ~outs[m].raised)
    IN [i \in 1..Len(Remaining) |-> outs[Remaining[i]].sims]

\* C25: when every embedder raises, _enhance_context returns the context unchanged;
\* when only some raise, the sentences are ranked by the mean similarity of the
\* embedders that did not raise, and the top 5 are returned in document order.
C25_RetrievalFailsOpen ==
    (fn.op = "_enhance_context" /\ Len(_split_into_sentences(fn.context)) > 3)
        => IF \A m \in DOMAIN fn.outs : fn.outs[m].raised
           THEN fn.result = fn.context
           ELSE IsTopInOrder(fn.result, _split_into_sentences(fn.context),
                             RemainingSims(fn.outs))

\* two embedders on six sentences: the first raised, the second ranked the first
\* sentence lowest, and the other five were returned
C25_Witness ==
    /\ fn.op = "_enhance_context"
    /\ fn.context = CLease
    /\ DOMAIN fn.outs = {"mpnet", "all_minilm"}
    /\ fn.outs["mpnet"].raised
    /\ ~fn.outs["all_minilm"].raised
    /\ fn.result = InDocumentOrder(_split_into_sentences(CLease), {2, 3, 4, 5, 6})

(***************************************************************************)
(* Properties of the chunking and of the text preparation.                 *)
(***************************************************************************)
\* C26: after the paragraph split and the sentence fallback of get_top_n_chunks,
\* every chunk has at most 100 words.
C26_ChunksWithinUnit ==
    fn.op = "get_top_n_chunks"
        => \A k \in 1..Len(fn.chunks) : WordCount(fn.chunks[k]) <= ParagraphWords

\* the sentences of a summary: its parts between '. ', without their final period
SummarySentences(summary) ==
    LET Bare(part) ==
            IF part # "" /\ Char(part, Len(part)) = "." THEN SubSeq(part, 1, Len(part) - 1)
            ELSE part
    IN [k \in DOMAIN Split(summary, ". ") |-> Bare(Strip(Split(summary, ". ")[k]))]

\* no two entries of sentences are the same
NoRepeat(sentences) ==
    \A i, j \in DOMAIN sentences : i # j => sentences[i] # sentences[j]

\* C28: the summary _postprocess_summary returns holds no sentence twice: a sentence
\* that stands several times in the summary it is given is kept once.
C28_NoSentenceTwice ==
    (summ.pc = "done" /\ ~summ.raised) => NoRepeat(SummarySentences(summ.summary))

\* the strings in a sequence
Range(seq) == {seq[i] : i \in DOMAIN seq}

\* every sentence of the result is a sentence of the document, and each third of
\* the document has a sentence that is in the result
KeepsEachThird(sentences, result_sentences) ==
    /\ result_sentences \subseteq Range(sentences)
    /\ \A third \in {1..(Len(sentences) \div 3),
                     (Len(sentences) \div 3 + 1)..((2 * Len(sentences)) \div 3),
                     ((2 * Len(sentences)) \div 3 + 1)..Len(sentences)} :
          {sentences[i] : i \in third} \cap result_sentences # {}

\* C21: for a document of 1000 sentences, whatever their lengths, the text
\* _handle_long_documents returns consists only of sentences of the document and
\* holds at least one sentence of its first, of its middle and of its last third.
C21_LongDocumentKeepsEachThird ==
    (fn.op = "_handle_long_documents" /\ Len(fn.sentences) = 1000)
        => \A result_sentences \in {Range(_split_into_sentences(fn.result))} :
              KeepsEachThird(fn.sentences, result_sentences)

\* C27: the text _handle_long_documents returns, which generate_enhanced_summary
\* hands to the summarization model, has at most 9600 words.
C27_ModelInputWithinBudget ==
    fn.op = "_handle_long_documents" => WordCount(fn.result) <= LongDocumentWords

====
